---- MODULE Spec2Model ----
(***************************************************************************)
(* Model of the Roblox account-linking plugin (tux/plugins/spectacle/      *)
(* verify.py): the link and unlink commands, the OAuth2 callback handler   *)
(* with its two session backends (cache service, in-process maps), the     *)
(* linkage table behind VerificationController and role synchronisation;   *)
(* of tux/modules/moderation, the kick and tempban commands (they take a   *)
(* member out of a guild) and the periodic check of expired tempbans.      *)
(*                                                                         *)
(* Every handler is a coroutine: it runs without interruption between two  *)
(* awaits, and other handlers may run at each await.  One action of the    *)
(* model is the effect of the awaited operation followed by the handler's  *)
(* synchronous code up to its next await (or its return).  A pc value      *)
(* names the awaited operation whose result the handler is waiting for.    *)
(***************************************************************************)
EXTENDS Integers, Sequences, FiniteSets, TLC

\* ------------------------------------------------------------------ bounds
MaxLinks == 1
MaxCallbacks == 2
MaxUnlinks == 1
MaxTicks == 2
TickLen == 301

\* the random bytes drawn for a token are (MaxSlope + 1) * (MaxOffset + 1)
\* patterns (see Entropy)
MaxSlope == 6
MaxOffset == 7
\* the ticks of the tempban checker, and the expired cases the case store
\* returns to one of them at most
MaxTempTicks == 3
MaxCases == 3

\* ------------------------------------------------------- program constants
SESSION_TTL == 600

\* secrets.token_urlsafe(64) for the verifier, token_urlsafe(16) for the state
VERIFIER_NBYTES == 64
STATE_NBYTES == 16

\* ------------------------------------------------------------ input domains
\* ctx.author.id of the users who run the commands
Requesters == {41, 42}
\* ctx.guild.id of the guilds the link command is run in (guild_only)
LinkGuilds == {7}
\* the id the code writes for a ctx.guild of None (`ctx.guild.id if ctx.guild
\* else 0`); link is guild_only, so no link command runs with it
NoGuild == 0
\* secrets.token_urlsafe(16): the n-th link request draws a token no earlier
\* request drew
StateTok == <<"s1", "s2", "s3">>
\* secrets.token_urlsafe(64) inside generate_challenge, likewise
VerifierTok == <<"vA", "vB", "vC">>
\* the S256 challenges of these verifiers, in the same order
ChallengeTok == <<"cA", "cB", "cC">>
\* a pair whose challenge is the one of the first verifier drawn
LinkParamsFirst(n) == [verifier |-> VerifierTok[n], challenge |-> ChallengeTok[1]]

\* self.generate_challenge() in the n-th link request: the verifier it draws
\* and the challenge of that verifier.  The tokens stand for URL-safe strings,
\* which quote gives back as they are.
LinkParams(n) == [verifier |-> VerifierTok[n], challenge |-> ChallengeTok[n]]
\* a state no link request ever issued
UnknownState == "zz"

LinkIds == 1..MaxLinks
UnlinkIds == 1..MaxUnlinks
CbIds == 1..MaxCallbacks

\* ---------------------------------------------------------- Python values
\* An optional value is the empty set (None) or a singleton.
None == {}
Some(x) == {x}
Val(o) == CHOOSE x \in o : TRUE

\* `not s` for an optional string
FalsyStr(o) == o = None \/ Val(o) = ""
\* `not n` for an optional int
FalsyInt(o) == o = None \/ Val(o) = 0
\* `not v` for an optional sequence of characters
FalsySeq(o) == o = None \/ Val(o) = <<>>

\* A string is the sequence of its characters.  A character of ASCII stands
\* for itself; the vertical tab and every character outside ASCII is written
\* by its code point ("U+0663" is ARABIC-INDIC DIGIT THREE).
Digits == <<"0", "1", "2", "3", "4", "5", "6", "7", "8", "9">>

\* str(n), as the sequence of its characters
RECURSIVE ToStr(_)
ToStr(n) ==
    IF n < 0 THEN <<"-">> \o ToStr(0 - n)
    ELSE IF n < 10 THEN <<Digits[n + 1]>>
    ELSE Append(ToStr(n \div 10), Digits[(n % 10) + 1])

\* sys.get_int_max_str_digits(): int() raises ValueError for a literal of
\* more decimal digits
MAX_STR_DIGITS == 4300

\* The decimal digits int() accepts (Unicode category Nd): the digits 0 to 9
\* of each script, in order.
DecimalDigits == <<
    <<"0", "1", "2", "3", "4", "5", "6", "7", "8", "9">>,
    <<"U+0660", "U+0661", "U+0662", "U+0663", "U+0664",
      "U+0665", "U+0666", "U+0667", "U+0668", "U+0669">>,
    <<"U+06F0", "U+06F1", "U+06F2", "U+06F3", "U+06F4",
      "U+06F5", "U+06F6", "U+06F7", "U+06F8", "U+06F9">>,
    <<"U+07C0", "U+07C1", "U+07C2", "U+07C3", "U+07C4",
      "U+07C5", "U+07C6", "U+07C7", "U+07C8", "U+07C9">>,
    <<"U+0966", "U+0967", "U+0968", "U+0969", "U+096A",
      "U+096B", "U+096C", "U+096D", "U+096E", "U+096F">>,
    <<"U+09E6", "U+09E7", "U+09E8", "U+09E9", "U+09EA",
      "U+09EB", "U+09EC", "U+09ED", "U+09EE", "U+09EF">>,
    <<"U+0A66", "U+0A67", "U+0A68", "U+0A69", "U+0A6A",
      "U+0A6B", "U+0A6C", "U+0A6D", "U+0A6E", "U+0A6F">>,
    <<"U+0AE6", "U+0AE7", "U+0AE8", "U+0AE9", "U+0AEA",
      "U+0AEB", "U+0AEC", "U+0AED", "U+0AEE", "U+0AEF">>,
    <<"U+0B66", "U+0B67", "U+0B68", "U+0B69", "U+0B6A",
      "U+0B6B", "U+0B6C", "U+0B6D", "U+0B6E", "U+0B6F">>,
    <<"U+0BE6", "U+0BE7", "U+0BE8", "U+0BE9", "U+0BEA",
      "U+0BEB", "U+0BEC", "U+0BED", "U+0BEE", "U+0BEF">>,
    <<"U+0C66", "U+0C67", "U+0C68", "U+0C69", "U+0C6A",
      "U+0C6B", "U+0C6C", "U+0C6D", "U+0C6E", "U+0C6F">>,
    <<"U+0CE6", "U+0CE7", "U+0CE8", "U+0CE9", "U+0CEA",
      "U+0CEB", "U+0CEC", "U+0CED", "U+0CEE", "U+0CEF">>,
    <<"U+0D66", "U+0D67", "U+0D68", "U+0D69", "U+0D6A",
      "U+0D6B", "U+0D6C", "U+0D6D", "U+0D6E", "U+0D6F">>,
    <<"U+0DE6", "U+0DE7", "U+0DE8", "U+0DE9", "U+0DEA",
      "U+0DEB", "U+0DEC", "U+0DED", "U+0DEE", "U+0DEF">>,
    <<"U+0E50", "U+0E51", "U+0E52", "U+0E53", "U+0E54",
      "U+0E55", "U+0E56", "U+0E57", "U+0E58", "U+0E59">>,
    <<"U+0ED0", "U+0ED1", "U+0ED2", "U+0ED3", "U+0ED4",
      "U+0ED5", "U+0ED6", "U+0ED7", "U+0ED8", "U+0ED9">>,
    <<"U+0F20", "U+0F21", "U+0F22", "U+0F23", "U+0F24",
      "U+0F25", "U+0F26", "U+0F27", "U+0F28", "U+0F29">>,
    <<"U+1040", "U+1041", "U+1042", "U+1043", "U+1044",
      "U+1045", "U+1046", "U+1047", "U+1048", "U+1049">>,
    <<"U+1090", "U+1091", "U+1092", "U+1093", "U+1094",
      "U+1095", "U+1096", "U+1097", "U+1098", "U+1099">>,
    <<"U+17E0", "U+17E1", "U+17E2", "U+17E3", "U+17E4",
      "U+17E5", "U+17E6", "U+17E7", "U+17E8", "U+17E9">>,
    <<"U+1810", "U+1811", "U+1812", "U+1813", "U+1814",
      "U+1815", "U+1816", "U+1817", "U+1818", "U+1819">>,
    <<"U+1946", "U+1947", "U+1948", "U+1949", "U+194A",
      "U+194B", "U+194C", "U+194D", "U+194E", "U+194F">>,
    <<"U+19D0", "U+19D1", "U+19D2", "U+19D3", "U+19D4",
      "U+19D5", "U+19D6", "U+19D7", "U+19D8", "U+19D9">>,
    <<"U+1A80", "U+1A81", "U+1A82", "U+1A83", "U+1A84",
      "U+1A85", "U+1A86", "U+1A87", "U+1A88", "U+1A89">>,
    <<"U+1A90", "U+1A91", "U+1A92", "U+1A93", "U+1A94",
      "U+1A95", "U+1A96", "U+1A97", "U+1A98", "U+1A99">>,
    <<"U+1B50", "U+1B51", "U+1B52", "U+1B53", "U+1B54",
      "U+1B55", "U+1B56", "U+1B57", "U+1B58", "U+1B59">>,
    <<"U+1BB0", "U+1BB1", "U+1BB2", "U+1BB3", "U+1BB4",
      "U+1BB5", "U+1BB6", "U+1BB7", "U+1BB8", "U+1BB9">>,
    <<"U+1C40", "U+1C41", "U+1C42", "U+1C43", "U+1C44",
      "U+1C45", "U+1C46", "U+1C47", "U+1C48", "U+1C49">>,
    <<"U+1C50", "U+1C51", "U+1C52", "U+1C53", "U+1C54",
      "U+1C55", "U+1C56", "U+1C57", "U+1C58", "U+1C59">>,
    <<"U+A620", "U+A621", "U+A622", "U+A623", "U+A624",
      "U+A625", "U+A626", "U+A627", "U+A628", "U+A629">>,
    <<"U+A8D0", "U+A8D1", "U+A8D2", "U+A8D3", "U+A8D4",
      "U+A8D5", "U+A8D6", "U+A8D7", "U+A8D8", "U+A8D9">>,
    <<"U+A900", "U+A901", "U+A902", "U+A903", "U+A904",
      "U+A905", "U+A906", "U+A907", "U+A908", "U+A909">>,
    <<"U+A9D0", "U+A9D1", "U+A9D2", "U+A9D3", "U+A9D4",
      "U+A9D5", "U+A9D6", "U+A9D7", "U+A9D8", "U+A9D9">>,
    <<"U+A9F0", "U+A9F1", "U+A9F2", "U+A9F3", "U+A9F4",
      "U+A9F5", "U+A9F6", "U+A9F7", "U+A9F8", "U+A9F9">>,
    <<"U+AA50", "U+AA51", "U+AA52", "U+AA53", "U+AA54",
      "U+AA55", "U+AA56", "U+AA57", "U+AA58", "U+AA59">>,
    <<"U+ABF0", "U+ABF1", "U+ABF2", "U+ABF3", "U+ABF4",
      "U+ABF5", "U+ABF6", "U+ABF7", "U+ABF8", "U+ABF9">>,
    <<"U+FF10", "U+FF11", "U+FF12", "U+FF13", "U+FF14",
      "U+FF15", "U+FF16", "U+FF17", "U+FF18", "U+FF19">>,
    <<"U+104A0", "U+104A1", "U+104A2", "U+104A3", "U+104A4",
      "U+104A5", "U+104A6", "U+104A7", "U+104A8", "U+104A9">>,
    <<"U+10D30", "U+10D31", "U+10D32", "U+10D33", "U+10D34",
      "U+10D35", "U+10D36", "U+10D37", "U+10D38", "U+10D39">>,
    <<"U+11066", "U+11067", "U+11068", "U+11069", "U+1106A",
      "U+1106B", "U+1106C", "U+1106D", "U+1106E", "U+1106F">>,
    <<"U+110F0", "U+110F1", "U+110F2", "U+110F3", "U+110F4",
      "U+110F5", "U+110F6", "U+110F7", "U+110F8", "U+110F9">>,
    <<"U+11136", "U+11137", "U+11138", "U+11139", "U+1113A",
      "U+1113B", "U+1113C", "U+1113D", "U+1113E", "U+1113F">>,
    <<"U+111D0", "U+111D1", "U+111D2", "U+111D3", "U+111D4",
      "U+111D5", "U+111D6", "U+111D7", "U+111D8", "U+111D9">>,
    <<"U+112F0", "U+112F1", "U+112F2", "U+112F3", "U+112F4",
      "U+112F5", "U+112F6", "U+112F7", "U+112F8", "U+112F9">>,
    <<"U+11450", "U+11451", "U+11452", "U+11453", "U+11454",
      "U+11455", "U+11456", "U+11457", "U+11458", "U+11459">>,
    <<"U+114D0", "U+114D1", "U+114D2", "U+114D3", "U+114D4",
      "U+114D5", "U+114D6", "U+114D7", "U+114D8", "U+114D9">>,
    <<"U+11650", "U+11651", "U+11652", "U+11653", "U+11654",
      "U+11655", "U+11656", "U+11657", "U+11658", "U+11659">>,
    <<"U+116C0", "U+116C1", "U+116C2", "U+116C3", "U+116C4",
      "U+116C5", "U+116C6", "U+116C7", "U+116C8", "U+116C9">>,
    <<"U+11730", "U+11731", "U+11732", "U+11733", "U+11734",
      "U+11735", "U+11736", "U+11737", "U+11738", "U+11739">>,
    <<"U+118E0", "U+118E1", "U+118E2", "U+118E3", "U+118E4",
      "U+118E5", "U+118E6", "U+118E7", "U+118E8", "U+118E9">>,
    <<"U+11950", "U+11951", "U+11952", "U+11953", "U+11954",
      "U+11955", "U+11956", "U+11957", "U+11958", "U+11959">>,
    <<"U+11C50", "U+11C51", "U+11C52", "U+11C53", "U+11C54",
      "U+11C55", "U+11C56", "U+11C57", "U+11C58", "U+11C59">>,
    <<"U+11D50", "U+11D51", "U+11D52", "U+11D53", "U+11D54",
      "U+11D55", "U+11D56", "U+11D57", "U+11D58", "U+11D59">>,
    <<"U+11DA0", "U+11DA1", "U+11DA2", "U+11DA3", "U+11DA4",
      "U+11DA5", "U+11DA6", "U+11DA7", "U+11DA8", "U+11DA9">>,
    <<"U+16A60", "U+16A61", "U+16A62", "U+16A63", "U+16A64",
      "U+16A65", "U+16A66", "U+16A67", "U+16A68", "U+16A69">>,
    <<"U+16AC0", "U+16AC1", "U+16AC2", "U+16AC3", "U+16AC4",
      "U+16AC5", "U+16AC6", "U+16AC7", "U+16AC8", "U+16AC9">>,
    <<"U+16B50", "U+16B51", "U+16B52", "U+16B53", "U+16B54",
      "U+16B55", "U+16B56", "U+16B57", "U+16B58", "U+16B59">>,
    <<"U+1D7CE", "U+1D7CF", "U+1D7D0", "U+1D7D1", "U+1D7D2",
      "U+1D7D3", "U+1D7D4", "U+1D7D5", "U+1D7D6", "U+1D7D7">>,
    <<"U+1D7D8", "U+1D7D9", "U+1D7DA", "U+1D7DB", "U+1D7DC",
      "U+1D7DD", "U+1D7DE", "U+1D7DF", "U+1D7E0", "U+1D7E1">>,
    <<"U+1D7E2", "U+1D7E3", "U+1D7E4", "U+1D7E5", "U+1D7E6",
      "U+1D7E7", "U+1D7E8", "U+1D7E9", "U+1D7EA", "U+1D7EB">>,
    <<"U+1D7EC", "U+1D7ED", "U+1D7EE", "U+1D7EF", "U+1D7F0",
      "U+1D7F1", "U+1D7F2", "U+1D7F3", "U+1D7F4", "U+1D7F5">>,
    <<"U+1D7F6", "U+1D7F7", "U+1D7F8", "U+1D7F9", "U+1D7FA",
      "U+1D7FB", "U+1D7FC", "U+1D7FD", "U+1D7FE", "U+1D7FF">>,
    <<"U+1E140", "U+1E141", "U+1E142", "U+1E143", "U+1E144",
      "U+1E145", "U+1E146", "U+1E147", "U+1E148", "U+1E149">>,
    <<"U+1E2F0", "U+1E2F1", "U+1E2F2", "U+1E2F3", "U+1E2F4",
      "U+1E2F5", "U+1E2F6", "U+1E2F7", "U+1E2F8", "U+1E2F9">>,
    <<"U+1E950", "U+1E951", "U+1E952", "U+1E953", "U+1E954",
      "U+1E955", "U+1E956", "U+1E957", "U+1E958", "U+1E959">>,
    <<"U+1FBF0", "U+1FBF1", "U+1FBF2", "U+1FBF3", "U+1FBF4",
      "U+1FBF5", "U+1FBF6", "U+1FBF7", "U+1FBF8", "U+1FBF9">>>>

DigitChars ==
    UNION {{DecimalDigits[r][d] : d \in 1..10} : r \in DOMAIN DecimalDigits}

DigitVal(c) ==
    CHOOSE d \in 0..9 : \E r \in DOMAIN DecimalDigits : DecimalDigits[r][d + 1] = c
IsDigit(c) == c \in DigitChars

\* the characters int() strips from both ends of its argument: the white
\* space of ASCII and of Unicode (str.isspace, but for the separators
\* U+001C to U+001F)
Whitespace ==
    {"\t", "\n", "U+000B", "\f", "\r", " ", "U+0085", "U+00A0", "U+1680",
     "U+2000", "U+2001", "U+2002", "U+2003", "U+2004", "U+2005", "U+2006",
     "U+2007", "U+2008", "U+2009", "U+200A", "U+2028", "U+2029", "U+202F",
     "U+205F", "U+3000"}

RECURSIVE LStrip(_)
LStrip(s) ==
    IF Len(s) > 0 /\ Head(s) \in Whitespace THEN LStrip(Tail(s)) ELSE s

RECURSIVE RStrip(_)
RStrip(s) ==
    IF Len(s) > 0 /\ s[Len(s)] \in Whitespace
    THEN RStrip(SubSeq(s, 1, Len(s) - 1))
    ELSE s

Strip(s) == RStrip(LStrip(s))

\* the literal without its sign
Unsigned(s) == IF Len(s) > 0 /\ Head(s) \in {"+", "-"} THEN Tail(s) ELSE s

\* decimal digits, with single underscores between them
IsDigitRun(s) ==
    /\ Len(s) > 0
    /\ \A k \in 1..Len(s) : IsDigit(s[k]) \/ s[k] = "_"
    /\ IsDigit(s[1]) /\ IsDigit(s[Len(s)])
    /\ \A k \in 1..(Len(s) - 1) : ~(s[k] = "_" /\ s[k + 1] = "_")

\* the number of digits of the literal (underscores do not count)
DigitCount(s) == Cardinality({k \in 1..Len(s) : s[k] # "_"})

\* int(s) succeeds: optional whitespace around an optional sign and a run of
\* at most MAX_STR_DIGITS decimal digits that single underscores may group
IsNumeric(s) ==
    LET t == Unsigned(Strip(s))
    IN  DigitCount(t) <= MAX_STR_DIGITS /\ IsDigitRun(t)

RECURSIVE DigitsValue(_)
DigitsValue(s) ==
    IF Len(s) = 0 THEN 0
    ELSE IF s[Len(s)] = "_" THEN DigitsValue(SubSeq(s, 1, Len(s) - 1))
    ELSE 10 * DigitsValue(SubSeq(s, 1, Len(s) - 1)) + DigitVal(s[Len(s)])

\* int(s) for a string it succeeds on
ToInt(s) ==
    LET t == Strip(s)
    IN  IF Len(t) > 0 /\ Head(t) = "-" THEN 0 - DigitsValue(Tail(t))
        ELSE DigitsValue(Unsigned(t))

\* ------------------------------------------------------ hashlib.sha256
\* 32-bit words are pairs <<high, low>> of 16-bit halves.
Pow2(n) == 2 ^ n

Bit(x, k) == (x \div Pow2(k)) % 2

XorTable ==
    [a \in 0..15 |-> [b \in 0..15 |->
        ((Bit(a, 0) + Bit(b, 0)) % 2) + 2 * ((Bit(a, 1) + Bit(b, 1)) % 2)
        + 4 * ((Bit(a, 2) + Bit(b, 2)) % 2) + 8 * ((Bit(a, 3) + Bit(b, 3)) % 2)]]

AndTable ==
    [a \in 0..15 |-> [b \in 0..15 |->
        Bit(a, 0) * Bit(b, 0) + 2 * Bit(a, 1) * Bit(b, 1)
        + 4 * Bit(a, 2) * Bit(b, 2) + 8 * Bit(a, 3) * Bit(b, 3)]]

Nibbles(table, x, y) ==
    table[x % 16][y % 16]
    + 16 * table[(x \div 16) % 16][(y \div 16) % 16]
    + 256 * table[(x \div 256) % 16][(y \div 256) % 16]
    + 4096 * table[x \div 4096][y \div 4096]

Xor(x, y) == <<Nibbles(XorTable, x[1], y[1]), Nibbles(XorTable, x[2], y[2])>>

And(x, y) == <<Nibbles(AndTable, x[1], y[1]), Nibbles(AndTable, x[2], y[2])>>

Not(x) == <<65535 - x[1], 65535 - x[2]>>

Add(x, y) ==
    LET low == x[2] + y[2]
    IN  <<(x[1] + y[1] + low \div 65536) % 65536, low % 65536>>

RECURSIVE Rotr(_, _)
Rotr(x, n) ==
    IF n >= 16 THEN Rotr(<<x[2], x[1]>>, n - 16)
    ELSE IF n = 0 THEN x
    ELSE <<(x[1] \div Pow2(n)) + (x[2] % Pow2(n)) * Pow2(16 - n),
           (x[2] \div Pow2(n)) + (x[1] % Pow2(n)) * Pow2(16 - n)>>

Shr(x, n) ==
    <<x[1] \div Pow2(n), (x[2] \div Pow2(n)) + (x[1] % Pow2(n)) * Pow2(16 - n)>>

Ch(e, f, g) == Xor(And(e, f), And(Not(e), g))

Maj(a, b, c) == Xor(Xor(And(a, b), And(a, c)), And(b, c))

BigSigma0(a) == Xor(Xor(Rotr(a, 2), Rotr(a, 13)), Rotr(a, 22))

BigSigma1(e) == Xor(Xor(Rotr(e, 6), Rotr(e, 11)), Rotr(e, 25))

SmallSigma0(x) == Xor(Xor(Rotr(x, 7), Rotr(x, 18)), Shr(x, 3))

SmallSigma1(x) == Xor(Xor(Rotr(x, 17), Rotr(x, 19)), Shr(x, 10))

RoundK ==
    <<
      <<17034, 12184>>, <<28983, 17553>>, <<46528, 64463>>, <<59829, 56229>>,
      <<14678, 49755>>, <<23025, 4593>>, <<37439, 33444>>, <<43804, 24277>>,
      <<55303, 43672>>, <<4739, 23297>>, <<9265, 34238>>, <<21772, 32195>>,
      <<29374, 23924>>, <<32990, 45566>>, <<39900, 1703>>, <<49563, 61812>>,
      <<58523, 27073>>, <<61374, 18310>>, <<4033, 40390>>, <<9228, 41420>>,
      <<11753, 11375>>, <<19060, 33962>>, <<23728, 43484>>, <<30457, 35034>>,
      <<38974, 20818>>, <<43057, 50797>>, <<45059, 10184>>, <<48985, 32711>>,
      <<50912, 3059>>, <<54695, 37191>>, <<1738, 25425>>, <<5161, 10599>>,
      <<10167, 2693>>, <<11803, 8504>>, <<19756, 28156>>, <<21304, 3347>>,
      <<25866, 29524>>, <<30314, 2747>>, <<33218, 51502>>, <<37490, 11397>>,
      <<41663, 59553>>, <<43034, 26187>>, <<49739, 35696>>, <<51052, 20899>>,
      <<53650, 59417>>, <<54937, 1572>>, <<62478, 13701>>, <<4202, 41072>>,
      <<6564, 49430>>, <<7735, 27656>>, <<10056, 30540>>, <<13488, 48309>>,
      <<14620, 3251>>, <<20184, 43594>>, <<23452, 51791>>, <<26670, 28659>>,
      <<29839, 33518>>, <<30885, 25455>>, <<33992, 30740>>, <<36039, 520>>,
      <<37054, 65530>>, <<42064, 27883>>, <<48889, 41975>>, <<50801, 30962>>
    >>

InitialHash ==
    <<
      <<27145, 58983>>, <<47975, 44677>>, <<15470, 62322>>, <<42319, 62778>>,
      <<20750, 21119>>, <<39685, 26764>>, <<8067, 55723>>, <<23520, 52505>>
    >>

\* message || 0x80 || 0x00.. || 64-bit big-endian bit length, a multiple of 64
RECURSIVE Zeros(_)
Zeros(n) == IF n = 0 THEN <<>> ELSE <<0>> \o Zeros(n - 1)

Pad(message) ==
    LET bits == 8 * Len(message)
        fill == (119 - (Len(message) % 64)) % 64
    IN  message \o <<128>> \o Zeros(fill) \o <<0, 0, 0, 0>>
        \o <<(bits \div 16777216) % 256, (bits \div 65536) % 256,
             (bits \div 256) % 256, (bits % 256)>>

BlockWords(block) ==
    [t \in 1..16 |-> <<256 * block[4 * t - 3] + block[4 * t - 2],
                       256 * block[4 * t - 1] + block[4 * t]>>]

RECURSIVE Schedule(_)
Schedule(w) ==
    IF Len(w) = 64 THEN w
    ELSE LET t == Len(w) + 1
         IN  Schedule(Append(w, Add(Add(SmallSigma1(w[t - 2]), w[t - 7]),
                                    Add(SmallSigma0(w[t - 15]), w[t - 16]))))

\* one round on the working variables a..h
Round(s, k, w) ==
    LET t1 == Add(Add(Add(s[8], BigSigma1(s[5])), Ch(s[5], s[6], s[7])), Add(k, w))
        t2 == Add(BigSigma0(s[1]), Maj(s[1], s[2], s[3]))
    IN  <<Add(t1, t2), s[1], s[2], s[3], Add(s[4], t1), s[5], s[6], s[7]>>

\* the working variables after each of the 64 rounds
RECURSIVE Rounds(_, _)
Rounds(trace, w) ==
    IF Len(trace) = 65 THEN trace[65]
    ELSE LET t == Len(trace)
         IN  Rounds(Append(trace, Round(trace[t], RoundK[t], w[t])), w)

Compress(h, block) ==
    LET s == Rounds(<<h>>, Schedule(BlockWords(block)))
    IN  [k \in 1..8 |-> Add(h[k], s[k])]

RECURSIVE Blocks(_, _)
Blocks(h, padded) ==
    IF padded = <<>> THEN h
    ELSE Blocks(Compress(h, SubSeq(padded, 1, 64)),
                SubSeq(padded, 65, Len(padded)))

\* hashlib.sha256(data).digest(): the 32 bytes of the digest
Sha256(data) ==
    LET h == Blocks(InitialHash, Pad(data))
    IN  [k \in 1..32 |->
            LET word == h[(k + 3) \div 4]
                half == IF (k - 1) % 4 < 2 THEN word[1] ELSE word[2]
            IN  IF k % 2 = 1 THEN half \div 256 ELSE half % 256]

\* ------------------------------------------------- base64 and urllib
UrlSafeAlphabet ==
    <<"A", "B", "C", "D", "E", "F", "G", "H", "I", "J", "K", "L", "M",
      "N", "O", "P", "Q", "R", "S", "T", "U", "V", "W", "X", "Y", "Z",
      "a", "b", "c", "d", "e", "f", "g", "h", "i", "j", "k", "l", "m",
      "n", "o", "p", "q", "r", "s", "t", "u", "v", "w", "x", "y", "z",
      "0", "1", "2", "3", "4", "5", "6", "7", "8", "9", "-", "_">>

\* base64.urlsafe_b64encode(data): four characters per three bytes, the last
\* group padded with "="
RECURSIVE urlsafe_b64encode(_)
urlsafe_b64encode(data) ==
    IF data = <<>> THEN <<>>
    ELSE LET n == Len(data)
             b1 == data[1]
             b2 == IF n >= 2 THEN data[2] ELSE 0
             b3 == IF n >= 3 THEN data[3] ELSE 0
             c1 == UrlSafeAlphabet[b1 \div 4 + 1]
             c2 == UrlSafeAlphabet[(b1 % 4) * 16 + b2 \div 16 + 1]
             c3 == UrlSafeAlphabet[(b2 % 16) * 4 + b3 \div 64 + 1]
             c4 == UrlSafeAlphabet[(b3 % 64) + 1]
         IN  IF n = 1 THEN <<c1, c2, "=", "=">>
             ELSE IF n = 2 THEN <<c1, c2, c3, "=">>
             ELSE <<c1, c2, c3, c4>> \o urlsafe_b64encode(SubSeq(data, 4, n))

\* str.rstrip("="): trailing "=" removed
RECURSIVE RStripPad(_)
RStripPad(s) ==
    IF s # <<>> /\ s[Len(s)] = "=" THEN RStripPad(SubSeq(s, 1, Len(s) - 1)) ELSE s

\* str.replace("=", ""): every "=" removed
RECURSIVE RemovePad(_)
RemovePad(s) ==
    IF s = <<>> THEN <<>>
    ELSE IF s[1] = "=" THEN RemovePad(Tail(s))
    ELSE <<s[1]>> \o RemovePad(Tail(s))

\* ord(c) of the ASCII letters, digits and the punctuation of base64
Ord(c) ==
    IF \E k \in 1..26 : UrlSafeAlphabet[k] = c
    THEN 64 + CHOOSE k \in 1..26 : UrlSafeAlphabet[k] = c
    ELSE IF \E k \in 27..52 : UrlSafeAlphabet[k] = c
    THEN 70 + CHOOSE k \in 27..52 : UrlSafeAlphabet[k] = c
    ELSE IF \E k \in 53..62 : UrlSafeAlphabet[k] = c
    THEN (CHOOSE k \in 53..62 : UrlSafeAlphabet[k] = c) - 5
    ELSE ("+" :> 43 @@ "-" :> 45 @@ "." :> 46 @@ "/" :> 47 @@ "=" :> 61
          @@ "_" :> 95 @@ "~" :> 126)[c]

\* str.encode(): one byte per (ASCII) character, its code point
Encode(s) == [k \in 1..Len(s) |-> Ord(s[k])]

HexDigits ==
    <<"0", "1", "2", "3", "4", "5", "6", "7", "8", "9", "A", "B", "C", "D", "E", "F">>

\* the characters urllib.parse.quote never escapes, and its default safe "/"
QuoteSafe ==
    {UrlSafeAlphabet[k] : k \in 1..64} \cup {".", "~", "/"}

\* urllib.parse.quote(s): every other character becomes %XX
RECURSIVE quote(_)
quote(s) ==
    IF s = <<>> THEN <<>>
    ELSE (IF s[1] \in QuoteSafe THEN <<s[1]>>
          ELSE <<"%", HexDigits[Ord(s[1]) \div 16 + 1], HexDigits[(Ord(s[1]) % 16) + 1]>>)
         \o quote(Tail(s))

\* ------------------------------------------------- Verify.generate_challenge
\* secrets.token_urlsafe(nbytes) on the bytes `tok` that token_bytes(nbytes)
\* drew: base64.urlsafe_b64encode(tok).rstrip(b"=").decode("ascii")
TokenUrlsafePadded(tok) == urlsafe_b64encode(tok)

token_urlsafe(tok) == RStripPad(urlsafe_b64encode(tok))

GenerateChallengePlain(tok) ==
    LET verifier == token_urlsafe(tok)
    IN  [verifier |-> verifier, challenge |-> verifier]

\* generate_challenge() when token_bytes(64) drew `tok`
generate_challenge(tok) ==
    LET verifier == token_urlsafe(tok)
        hash_digest == Sha256(Encode(verifier))
        challenge == RemovePad(urlsafe_b64encode(hash_digest))
    IN  [verifier |-> verifier, challenge |-> challenge]

\* the query of the authorization URL that link builds, given quote(state)
\* and quote(params["challenge"])
AuthQuery(state, code_challenge) ==
    [code_challenge |-> code_challenge,
     code_challenge_method |-> "S256",
     response_type |-> "code",
     state |-> state]

\* --------------------------------------------------------- the cache client
\* The cache is a key/value store with a per-key expiry.  A key is the pair
\* <<field, state>> for f"verify:{field}:{state}".
\* a key without the state in it
CacheKeyNoState(field, state) == <<field, "">>

CacheKey(field, state) == <<field, state>>

\* a set that passes no `ex`: the key never expires
CacheSetNoExpiry(c, key, value, ttl, t) ==
    [k \in DOMAIN c \cup {key} |->
        IF k = key THEN [val |-> value, exp |-> t + 1000 * ttl] ELSE c[k]]

\* cache.set(key, value, ex=ttl) at time t
CacheSet(c, key, value, ttl, t) ==
    [k \in DOMAIN c \cup {key} |->
        IF k = key THEN [val |-> value, exp |-> t + ttl] ELSE c[k]]

\* cache.get(key): the value, or None when the key is absent
CacheGet(c, key) == IF key \in DOMAIN c THEN Some(c[key].val) ELSE None

\* cache.delete(key)
CacheDelete(c, key) == [k \in DOMAIN c \ {key} |-> c[k]]

\* the store drops every key whose expiry has been reached at time t
CacheExpire(c, t) == [k \in {x \in DOMAIN c : c[x].exp > t} |-> c[k]]

\* ------------------------------------------------------ the in-process maps
\* dict.pop(key, default): the value read
DictGet(d, key, default) == IF key \in DOMAIN d THEN d[key] ELSE default
\* a read that leaves the entry in the dict (get in place of pop)
DictPopKeeps(d, key) == d

\* dict.pop(key, default): the dict left behind
DictPop(d, key) == [k \in DOMAIN d \ {key} |-> d[k]]
\* d[key] = value
DictPut(d, key, value) ==
    [k \in DOMAIN d \cup {key} |-> IF k = key THEN value ELSE d[k]]

EmptyDict == [k \in {} |-> 0]

\* d.get(key)
DictLookup(d, key) == IF key \in DOMAIN d THEN Some(d[key]) ELSE None

\* ------------------------------------------------------ the linkage table
\* The table is the set of its rows.
\* BaseController.find_one(filters=column == value): a row, or None
find_one(table, column, value) ==
    LET found == {row \in table : row[column] = value}
    IN  IF found = {} THEN None ELSE Some(CHOOSE row \in found : TRUE)

\* BaseController.upsert(filters={column: value}, **values): the rows the
\* filter finds take the values; when it finds none, a row of the filter and
\* the values is inserted
upsert(table, column, value, values) ==
    LET found == {row \in table : row[column] = value}
        set(row) == [c \in DOMAIN row |->
                        IF c \in DOMAIN values THEN values[c] ELSE row[c]]
    IN  IF found = {}
        THEN table \cup {[c \in {column} \cup DOMAIN values |->
                             IF c = column THEN value ELSE values[c]]}
        ELSE (table \ found) \cup {set(row) : row \in found}

\* BaseController.delete_by_id(id): discord_id is the table's primary key
delete_by_id(table, id) == {row \in table : row.discord_id # id}

\* VerificationController.get_by_discord_id
get_by_discord_id(table, discord_id) == find_one(table, "discord_id", discord_id)

\* a plain insert in place of the upsert
insert_verification(table, discord_id, roblox_id, roblox_username, t) ==
    table \cup {[discord_id |-> discord_id, roblox_id |-> roblox_id,
                 roblox_username |-> roblox_username, verified_at |-> t]}

\* VerificationController.upsert_verification
upsert_verification(table, discord_id, roblox_id, roblox_username, t) ==
    upsert(table, "discord_id", discord_id,
           [roblox_id |-> roblox_id, roblox_username |-> roblox_username,
            verified_at |-> t])

\* a delete that empties the table
DeleteEveryRow(table, discord_id) == {}

\* VerificationController.delete
delete(table, discord_id) == delete_by_id(table, discord_id)

\* ------------------------------------------------- CONFIG.VERIFICATION
\* VerificationConfig's field defaults
DEFAULT_ROLE_ID == 0
DEFAULT_ROBLOX_GROUP_ID == 16185131

VerificationConfig(verified, group_member, group) ==
    [VERIFIED_ROLE_ID |-> verified, GROUP_MEMBER_ROLE_ID |-> group_member,
     ROBLOX_GROUP_ID |-> group]

\* The configured GUILDS, as the sequence of (guild id, VerificationConfig)
\* pairs that GUILDS.items() iterates over, in insertion order.  One tenant
\* next to the default entry 0 and a guild the bot is not in:
OneGuild ==
    << <<0, VerificationConfig(DEFAULT_ROLE_ID, DEFAULT_ROLE_ID,
                               DEFAULT_ROBLOX_GROUP_ID)>>,
       <<7, VerificationConfig(100, 200, 55)>>,
       <<9, VerificationConfig(102, 202, 56)>> >>

\* Two tenants that share a Roblox group:
TwoGuilds ==
    << <<0, VerificationConfig(DEFAULT_ROLE_ID, DEFAULT_ROLE_ID,
                               DEFAULT_ROBLOX_GROUP_ID)>>,
       <<7, VerificationConfig(100, 200, 55)>>,
       <<8, VerificationConfig(101, 201, 55)>>,
       <<9, VerificationConfig(102, 202, 56)>> >>

\* Two tenants with a Roblox group each, the one without a group-member role
\* first:
SplitGuilds ==
    << <<0, VerificationConfig(DEFAULT_ROLE_ID, DEFAULT_ROLE_ID,
                               DEFAULT_ROBLOX_GROUP_ID)>>,
       <<8, VerificationConfig(101, DEFAULT_ROLE_ID, 56)>>,
       <<7, VerificationConfig(100, 200, 55)>> >>

\* bot.get_guild(g_id): the guilds the bot is in
BotGuilds == {7, 8}
get_guild(g_id) == IF g_id \in BotGuilds THEN Some(g_id) ELSE None

\* guild.get_role(role_id): the roles that exist in each guild
GuildRoles == (7 :> {100, 200, 300}) @@ (8 :> {101, 201, 300})
get_role(guild, role_id) ==
    IF role_id \in GuildRoles[guild] THEN Some(role_id) ELSE None

\* the roles the members hold before any verification
InitRoles ==
    (7 :> ((41 :> {300}) @@ (42 :> {100, 300})))
    @@ (8 :> ((41 :> {}) @@ (42 :> {})))

\* ---------------------------------------------------------------- state
VARIABLES
    has_cache,      \* bot.cache_service is available (fixed at start-up)
    GUILDS,         \* CONFIG.VERIFICATION.GUILDS (fixed at start-up)
    now,            \* wall-clock time in seconds
    cache,          \* the cache service's keys
    pending,        \* Verify._pending_verifications
    verifiers,      \* Verify._verifiers
    db,             \* the verification table
    lk,             \* invocations of the link command
    ul,             \* invocations of the unlink command
    cb,             \* invocations of handle_callback
    roles,          \* guild -> member -> the role ids the member holds
    pk,             \* one drawing of state and PKCE pair, with real tokens
    tb,             \* the TempBan cog: its flag, the cases, the bans, the ticks
    created,        \* history: state -> time its session was first stored
    sess_read       \* history: states whose whole session an invocation has read

vars == <<has_cache, GUILDS, now, cache, pending, verifiers, db, lk, ul, cb, roles,
          pk, tb, created, sess_read>>

IdleLink == [pc |-> "idle", author |-> 0, guild |-> 0, state |-> "",
             verifier |-> "", challenge |-> "", sent |-> "none", url |-> None]

IdleUnlink == [pc |-> "idle", author |-> 0]

IdlePk ==
    [pc |-> "idle", state_bytes |-> <<>>, verifier_bytes |-> <<>>, state |-> <<>>,
     params |-> [verifier |-> <<>>, challenge |-> <<>>], url |-> None]

TempTicks == 1..MaxTempTicks

\* one execution of check_tempbans
IdleRun ==
    [pc |-> "idle", end |-> "none",
     \* all_expired_cases from the case at hand on (ids), the guilds still to
     \* visit for it, any_success and failed of _process_tempban_case, and
     \* the loop's processed and failed
     todo |-> <<>>, guilds |-> <<>>, any_success |-> FALSE, case_failed |-> 0,
     processed |-> 0, failed |-> 0]

\* The tempban checker: its flag, the bans the guilds hold, and two histories
\* of its calls: `lifted` holds <<case id, guild>> for every unban that
\* returned, `marked` the case ids for which set_tempban_expired returned.
IdleTb ==
    [processing |-> FALSE, bans |-> [g \in BotGuilds |-> {}],
     lifted |-> {}, marked |-> {},
     run |-> [t \in TempTicks |-> IdleRun]]

IdleCb ==
    [pc |-> "idle", code |-> None, state |-> None,
     discord_id |-> None, guild_id |-> None, code_verifier |-> None,
     access_token |-> None, roblox_id |-> 0, roblox_username |-> <<>>,
     \* the verified_at upsert_verification computed when it was called
     verified_at |-> 0,
     status |-> 0, location |-> <<>>,
     \* what the awaited _apply_roles gave back to the handler: None while
     \* it has not returned
     rs_result |-> None,
     \* _apply_roles: position in GUILDS.items(), group_check_cache, the
     \* fetched member's roles, to_add
     gi |-> 0, group_check_cache |-> EmptyDict, member_roles |-> {},
     to_add |-> <<>>,
     \* history of what the invocation did
     late |-> FALSE, replay |-> FALSE, looked_up |-> FALSE, valid |-> FALSE,
     token_req |-> FALSE, profile_req |-> FALSE, group_req |-> FALSE,
     wrote |-> FALSE, granted |-> FALSE, rs_failed |-> FALSE,
     \* history of _apply_roles: the invocations that had been answered 302
     \* when it started, the groups whose membership it requested, what each
     \* request gave, and how each tenant it reached ended
     after |-> {}, checks |-> <<>>, outcomes |-> EmptyDict, tenants |-> <<>>,
     \* history: the add_roles calls it issued, with their arguments
     calls |-> <<>>,
     \* history of what the token and the profile endpoint did
     token_end |-> "none", profile_end |-> "none", user_sub |-> None,
     \* preferred_username and nickname of the profile the callback went on with
     user_names |-> <<None, None>>]

Init ==
    /\ has_cache \in BOOLEAN
    /\ GUILDS = OneGuild
    /\ now = 0
    /\ cache = EmptyDict
    /\ pending = EmptyDict
    /\ verifiers = EmptyDict
    /\ db = {}
    /\ lk = [n \in LinkIds |-> IdleLink]
    /\ ul = [u \in UnlinkIds |-> IdleUnlink]
    /\ cb = [i \in CbIds |-> IdleCb]
    /\ roles = InitRoles
    /\ created = EmptyDict
    /\ sess_read = {}
    /\ pk = IdlePk
    /\ tb = IdleTb

\* ------------------------------------------------------------------ time
Tick ==
    /\ now < MaxTicks * TickLen
    /\ now' = now + TickLen
    /\ cache' = CacheExpire(cache, now')
    /\ UNCHANGED <<tb, pk, has_cache, GUILDS, roles, pending, verifiers, db, lk, ul, cb, created,
                   sess_read>>

\* ------------------------------------------------------------ Verify.link
\* The command is invoked by `author` in `guild`; it awaits the lookup.
LinkStart(n, author, guild) ==
    /\ lk[n].pc = "idle"
    /\ \A m \in DOMAIN lk : m < n => lk[m].pc # "idle"
    /\ lk' = [lk EXCEPT ![n] = [@ EXCEPT !.pc = "lookup", !.author = author,
                                         !.guild = guild]]
    /\ UNCHANGED <<tb, pk, has_cache, GUILDS, roles, now, cache, pending, verifiers, db, ul, cb,
                   created, sess_read>>

\* a link that goes on to create the session whatever the lookup returned
LinkLookupUnchecked(n) ==
    /\ lk[n].pc = "lookup"
    /\ LET result == get_by_discord_id(db, lk[n].author)
           state == StateTok[n]
           params == LinkParams(n)
       IN  IF FALSE
           THEN /\ lk' = [lk EXCEPT ![n].pc = "send"]
                /\ UNCHANGED <<pending, verifiers, created>>
           ELSE IF has_cache
           THEN /\ lk' = [lk EXCEPT ![n] = [@ EXCEPT !.pc = "set_discord",
                                                    !.state = state,
                                                    !.verifier = params.verifier,
                                                    !.challenge = params.challenge]]
                /\ UNCHANGED <<pending, verifiers, created>>
           ELSE /\ pending' = DictPut(pending, state,
                        [discord_id |-> lk[n].author, guild_id |-> lk[n].guild])
                /\ verifiers' = DictPut(verifiers, state, params.verifier)
                /\ created' = DictPut(created, state, now)
                /\ lk' = [lk EXCEPT ![n] = [@ EXCEPT
                              !.pc = "send",
                              !.state = state,
                              !.verifier = params.verifier,
                              !.challenge = params.challenge]]
    /\ UNCHANGED <<tb, pk, has_cache, GUILDS, roles, now, cache, db, ul, cb, sess_read>>

\* get_by_discord_id returns; for an already verified author the message
\* saying so is awaited, otherwise state and verifier are drawn and the
\* session is stored: in the in-process maps at once, after which the message
\* with the URL is awaited, in the cache by three awaited sets.
LinkLookup(n) ==
    /\ lk[n].pc = "lookup"
    /\ LET result == get_by_discord_id(db, lk[n].author)
           state == StateTok[n]
           params == LinkParams(n)
       IN  IF result # None
           THEN /\ lk' = [lk EXCEPT ![n].pc = "send"]
                /\ UNCHANGED <<pending, verifiers, created>>
           ELSE IF has_cache
           THEN /\ lk' = [lk EXCEPT ![n] = [@ EXCEPT !.pc = "set_discord",
                                                    !.state = state,
                                                    !.verifier = params.verifier,
                                                    !.challenge = params.challenge]]
                /\ UNCHANGED <<pending, verifiers, created>>
           ELSE /\ pending' = DictPut(pending, state,
                        [discord_id |-> lk[n].author, guild_id |-> lk[n].guild])
                /\ verifiers' = DictPut(verifiers, state, params.verifier)
                /\ created' = DictPut(created, state, now)
                /\ lk' = [lk EXCEPT ![n] = [@ EXCEPT
                              !.pc = "send",
                              !.state = state,
                              !.verifier = params.verifier,
                              !.challenge = params.challenge]]
    /\ UNCHANGED <<tb, pk, has_cache, GUILDS, roles, now, cache, db, ul, cb, sess_read>>

\* cache.set(f"verify:discord_id:{state}", str(ctx.author.id), ex=600); the
\* guild key is set next `if ctx.guild`
LinkSetDiscord(n) ==
    /\ lk[n].pc = "set_discord"
    /\ cache' = CacheSet(cache, CacheKey("discord_id", lk[n].state),
                         ToStr(lk[n].author), SESSION_TTL, now)
    /\ created' = DictPut(created, lk[n].state, now)
    /\ lk' = [lk EXCEPT ![n].pc = IF lk[n].guild # NoGuild THEN "set_guild"
                                  ELSE "set_verifier"]
    /\ UNCHANGED <<tb, pk, has_cache, GUILDS, roles, now, pending, verifiers, db, ul, cb, sess_read>>

\* cache.set(f"verify:guild_id:{state}", str(ctx.guild.id), ex=600)
LinkSetGuild(n) ==
    /\ lk[n].pc = "set_guild"
    /\ cache' = CacheSet(cache, CacheKey("guild_id", lk[n].state),
                         ToStr(lk[n].guild), SESSION_TTL, now)
    /\ lk' = [lk EXCEPT ![n].pc = "set_verifier"]
    /\ UNCHANGED <<tb, pk, has_cache, GUILDS, roles, now, pending, verifiers, db, ul, cb, created,
                   sess_read>>

\* cache.set(f"verify:verifier:{state}", params["verifier"], ex=600); the
\* message with the authorization URL is awaited next
LinkSetVerifier(n) ==
    /\ lk[n].pc = "set_verifier"
    /\ cache' = CacheSet(cache, CacheKey("verifier", lk[n].state),
                         lk[n].verifier, SESSION_TTL, now)
    /\ lk' = [lk EXCEPT ![n].pc = "send"]
    /\ UNCHANGED <<tb, pk, has_cache, GUILDS, roles, now, pending, verifiers, db, ul, cb, created,
                   sess_read>>

\* ctx.send returns: the author has been told that they are verified already
\* (no state was drawn), or has the message with the authorization URL
LinkSend(n) ==
    /\ lk[n].pc = "send"
    /\ lk' = [lk EXCEPT ![n] =
                IF lk[n].state = ""
                THEN [@ EXCEPT !.pc = "done", !.sent = "already"]
                ELSE [@ EXCEPT !.pc = "done", !.sent = "url",
                               !.url = Some(AuthQuery(lk[n].state,
                                                      lk[n].challenge))]]
    /\ UNCHANGED <<tb, pk, has_cache, GUILDS, roles, now, cache, pending, verifiers, db, ul,
                   cb, created, sess_read>>

\* ctx.send raises: the exception leaves link, nothing was sent and a stored
\* session stays
LinkSendError(n) ==
    /\ lk[n].pc = "send"
    /\ lk' = [lk EXCEPT ![n].pc = "raised"]
    /\ UNCHANGED <<tb, pk, has_cache, GUILDS, roles, now, cache, pending, verifiers, db, ul,
                   cb, created, sess_read>>

\* ---------------------------------------------------------- Verify.unlink
\* The command is invoked by `author`; it awaits the lookup.
UnlinkStart(u, author) ==
    /\ ul[u].pc = "idle"
    /\ ul' = [ul EXCEPT ![u] = [pc |-> "lookup", author |-> author]]
    /\ UNCHANGED <<tb, pk, has_cache, GUILDS, roles, now, cache, pending, verifiers, db, lk,
                   cb, created, sess_read>>

\* get_by_discord_id returns: the message "You are not verified." or the
\* delete is awaited
UnlinkLookup(u) ==
    /\ ul[u].pc = "lookup"
    /\ ul' = [ul EXCEPT ![u].pc =
                IF get_by_discord_id(db, ul[u].author) = None
                THEN "send" ELSE "delete"]
    /\ UNCHANGED <<tb, pk, has_cache, GUILDS, roles, now, cache, pending, verifiers, db, lk,
                   cb, created, sess_read>>

\* verification.delete(result.discord_id) returns; the message that the
\* account has been unlinked is awaited
UnlinkDelete(u) ==
    /\ ul[u].pc = "delete"
    /\ db' = delete(db, ul[u].author)
    /\ ul' = [ul EXCEPT ![u].pc = "send"]
    /\ UNCHANGED <<tb, pk, has_cache, GUILDS, roles, now, cache, pending, verifiers, lk, cb,
                   created, sess_read>>

\* ctx.send returns and unlink ends
UnlinkSend(u) ==
    /\ ul[u].pc = "send"
    /\ ul' = [ul EXCEPT ![u] = IdleUnlink]
    /\ UNCHANGED <<tb, pk, has_cache, GUILDS, roles, now, cache, pending, verifiers, db, lk,
                   cb, created, sess_read>>

\* ctx.send raises: the exception leaves unlink, which has done what it does
\* to the table
UnlinkSendError(u) ==
    /\ ul[u].pc = "send"
    /\ ul' = [ul EXCEPT ![u] = IdleUnlink]
    /\ UNCHANGED <<tb, pk, has_cache, GUILDS, roles, now, cache, pending, verifiers, db, lk,
                   cb, created, sess_read>>

\* -------------------------------------------------- Verify.handle_callback
\* request.query.get("code") and request.query.get("state")
CodeInputs == {None, Some(""), Some("xyz")}
StateInputs ==
    {None, Some(""), Some(UnknownState)} \cup {Some(StateTok[n]) : n \in LinkIds}

\* an access token of the token endpoint's JSON: absent, empty or a token
TokenInputs == {None, Some(""), Some("tok1")}

\* a check of the state alone
MissingState(code, state) == FalsyStr(state)

\* `if not code or not state`
MissingParameters(code, state) == FalsyStr(code) \/ FalsyStr(state)

\* a check for an absent token that lets the empty one through
NoAccessTokenNoneOnly(access_token) == access_token = None

\* `if not access_token`
NoAccessToken(access_token) == FalsyStr(access_token)

\* a session check that does not look at the guild id
SessionInvalidNoGuild(discord_id, code_verifier, guild_id) ==
    FalsyInt(discord_id) \/ FalsyStr(code_verifier)

\* `if not discord_id or not code_verifier or not guild_id`
SessionInvalid(discord_id, code_verifier, guild_id) ==
    FalsyInt(discord_id) \/ FalsyStr(code_verifier) \/ FalsyInt(guild_id)

\* `int(val) if val else None` on a value read from the cache
IntOrNone(val) == IF FalsySeq(val) THEN None ELSE Some(ToInt(Val(val)))

\* a web.Response with this status ends the invocation
Respond(rec, status) == [rec EXCEPT !.pc = "done", !.status = status]

\* a handler that goes on to the token exchange without the session check
AfterSessionUnchecked(rec) == [rec EXCEPT !.pc = "token", !.token_req = TRUE]

\* The session check and what follows it without an await: the 400 response, or
\* the POST to the token endpoint.
AfterSession(rec) ==
    IF SessionInvalid(rec.discord_id, rec.code_verifier, rec.guild_id)
    THEN Respond(rec, 400)
    ELSE [rec EXCEPT !.pc = "token", !.token_req = TRUE]

\* the invocation read all three parts of a session
ReadWhole(rec) ==
    rec.discord_id # None /\ rec.guild_id # None /\ rec.code_verifier # None

\* history (kept of a request refused for a missing parameter): the backend
\* in use holds all of the session of state s
Stored(s) ==
    IF has_cache
    THEN \A field \in {"discord_id", "guild_id", "verifier"} :
             CacheKey(field, s) \in DOMAIN cache
    ELSE s \in DOMAIN pending /\ s \in DOMAIN verifiers

\* A request arrives.  Missing parameters are answered at once.  With the
\* cache the first get is awaited; without it both maps are popped and the
\* session is checked before anything is awaited.
CbStart(i, code, state) ==
    /\ cb[i].pc = "idle"
    /\ \A j \in CbIds : j < i => cb[j].pc # "idle"
    /\ LET rec0 == [cb[i] EXCEPT !.code = code, !.state = state]
       IN  IF MissingParameters(code, state)
           THEN /\ cb' = [cb EXCEPT ![i] =
                             Respond([rec0 EXCEPT !.valid = state # None
                                                     /\ Stored(Val(state))],
                                     400)]
                /\ UNCHANGED <<pending, verifiers, sess_read>>
           ELSE LET st == Val(state)
                    rec1 == [rec0 EXCEPT
                        !.looked_up = TRUE,
                        !.replay = st \in sess_read,
                        !.late = st \in DOMAIN created
                                 /\ now > created[st] + SESSION_TTL]
                IN  IF has_cache
                    THEN /\ cb' = [cb EXCEPT ![i] =
                                      [rec1 EXCEPT !.pc = "get_discord"]]
                         /\ UNCHANGED <<pending, verifiers, sess_read>>
                    ELSE LET session == DictGet(pending, st, EmptyDict)
                             rec2 == [rec1 EXCEPT
                                 !.discord_id = DictLookup(session, "discord_id"),
                                 !.guild_id = DictLookup(session, "guild_id"),
                                 !.code_verifier = DictLookup(verifiers, st)]
                         IN  /\ pending' = DictPop(pending, st)
                             /\ verifiers' = DictPop(verifiers, st)
                             /\ cb' = [cb EXCEPT ![i] = AfterSession(rec2)]
                             /\ sess_read' = IF ReadWhole(rec2)
                                             THEN sess_read \cup {st}
                                             ELSE sess_read
    /\ UNCHANGED <<tb, pk, has_cache, GUILDS, roles, now, cache, db, lk, ul, created>>

\* cache.get(f"verify:discord_id:{state}") returns
CbGetDiscord(i) ==
    /\ cb[i].pc = "get_discord"
    /\ LET val == CacheGet(cache, CacheKey("discord_id", Val(cb[i].state)))
       IN  cb' = [cb EXCEPT ![i] = [@ EXCEPT !.pc = "get_guild",
                                             !.discord_id = IntOrNone(val)]]
    /\ UNCHANGED <<tb, pk, has_cache, GUILDS, roles, now, cache, pending, verifiers, db, lk, ul,
                   created, sess_read>>

\* cache.get(f"verify:guild_id:{state}") returns
CbGetGuild(i) ==
    /\ cb[i].pc = "get_guild"
    /\ LET val == CacheGet(cache, CacheKey("guild_id", Val(cb[i].state)))
       IN  cb' = [cb EXCEPT ![i] = [@ EXCEPT !.pc = "get_verifier",
                                             !.guild_id = IntOrNone(val)]]
    /\ UNCHANGED <<tb, pk, has_cache, GUILDS, roles, now, cache, pending, verifiers, db, lk, ul,
                   created, sess_read>>

\* cache.get(f"verify:verifier:{state}") returns
CbGetVerifier(i) ==
    /\ cb[i].pc = "get_verifier"
    /\ LET val == CacheGet(cache, CacheKey("verifier", Val(cb[i].state)))
           rec == [cb[i] EXCEPT !.pc = "del_discord", !.code_verifier = val]
       IN  /\ cb' = [cb EXCEPT ![i] = rec]
           /\ sess_read' = IF ReadWhole(rec)
                           THEN sess_read \cup {Val(cb[i].state)}
                           ELSE sess_read
    /\ UNCHANGED <<tb, pk, has_cache, GUILDS, roles, now, cache, pending, verifiers, db, lk, ul,
                   created>>

\* cache.delete(f"verify:discord_id:{state}") returns
CbDelDiscord(i) ==
    /\ cb[i].pc = "del_discord"
    /\ cache' = CacheDelete(cache, CacheKey("discord_id", Val(cb[i].state)))
    /\ cb' = [cb EXCEPT ![i].pc = "del_guild"]
    /\ UNCHANGED <<tb, pk, has_cache, GUILDS, roles, now, pending, verifiers, db, lk, ul, created,
                   sess_read>>

\* cache.delete(f"verify:guild_id:{state}") returns
CbDelGuild(i) ==
    /\ cb[i].pc = "del_guild"
    /\ cache' = CacheDelete(cache, CacheKey("guild_id", Val(cb[i].state)))
    /\ cb' = [cb EXCEPT ![i].pc = "del_verifier"]
    /\ UNCHANGED <<tb, pk, has_cache, GUILDS, roles, now, pending, verifiers, db, lk, ul, created,
                   sess_read>>

\* cache.delete(f"verify:verifier:{state}") returns; the session is checked
CbDelVerifier(i) ==
    /\ cb[i].pc = "del_verifier"
    /\ cache' = CacheDelete(cache, CacheKey("verifier", Val(cb[i].state)))
    /\ cb' = [cb EXCEPT ![i] = AfterSession(cb[i])]
    /\ UNCHANGED <<tb, pk, has_cache, GUILDS, roles, now, pending, verifiers, db, lk, ul, created,
                   sess_read>>

\* the exception of the token request swallowed: the handler goes on to the
\* profile
CbTokenErrorSwallowed(i) ==
    /\ cb[i].pc = "token"
    /\ cb' = [cb EXCEPT ![i] = [@ EXCEPT !.token_end = "raised",
                                         !.access_token = Some("tok1"),
                                         !.pc = "profile",
                                         !.profile_req = TRUE]]
    /\ UNCHANGED <<tb, pk, has_cache, GUILDS, roles, now, cache, pending, verifiers, db, lk, ul,
                   created, sess_read>>

\* The POST to the token endpoint raises (network error, timeout, a body that
\* is no JSON): the handler's except clause answers 500.
CbTokenError(i) ==
    /\ cb[i].pc = "token"
    /\ cb' = [cb EXCEPT ![i] = Respond([@ EXCEPT !.token_end = "raised"], 500)]
    /\ UNCHANGED <<tb, pk, has_cache, GUILDS, roles, now, cache, pending, verifiers, db, lk, ul,
                   created, sess_read>>

\* The token endpoint answers; without an access token the handler answers
\* 500, with one it requests the profile.
CbToken(i, access_token) ==
    /\ cb[i].pc = "token"
    /\ LET rec == [cb[i] EXCEPT !.token_end = "answered",
                                 !.access_token = access_token]
       IN  cb' = [cb EXCEPT ![i] =
                    IF NoAccessToken(access_token)
                    THEN Respond(rec, 500)
                    ELSE [rec EXCEPT !.pc = "profile", !.profile_req = TRUE]]
    /\ UNCHANGED <<tb, pk, has_cache, GUILDS, roles, now, cache, pending, verifiers, db, lk, ul,
                   created, sess_read>>

\* the userinfo JSON: `sub`, `preferred_username` and `nickname` may be absent
Nova == <<"n", "o", "v", "a">>
Nick == <<"n", "i", "c", "k">>
\* a display name with a character that separates the parameters of a query
AmpName == <<"a", "&", "b">>
SubInputs == {None, Some(<<"x">>), Some(ToStr(900))}
\* the profiles of the flow: an account with a user name, with each kind of
\* `sub`, and an account that has only a display name
ProfileInputs ==
    [sub : SubInputs, preferred_username : {Some(Nova)}, nickname : {None}]
    \cup {[sub |-> Some(ToStr(900)), preferred_username |-> None,
           nickname |-> Some(AmpName)]}

\* `a or b` on optional strings, as Python evaluates it
Or(a, b) == IF FalsySeq(a) THEN b ELSE a

\* a fallback taken only for an absent name, not for an empty one
DisplayNameNoneOnly(user_data, roblox_id) ==
    IF user_data.preferred_username # None
    THEN Val(user_data.preferred_username)
    ELSE IF user_data.nickname # None THEN Val(user_data.nickname)
    ELSE ToStr(roblox_id)

\* user_data.get("preferred_username") or user_data.get("nickname")
\*   or str(roblox_id)
DisplayName(user_data, roblox_id) ==
    Val(Or(Or(user_data.preferred_username, user_data.nickname),
           Some(ToStr(roblox_id))))

\* user_data.get("sub", "0"): a default in place of the KeyError
SubDefault(user_data) ==
    IF user_data.sub = None THEN Some(<<"0">>) ELSE user_data.sub

\* user_data["sub"]: the value, or None for the KeyError of an absent key
Sub(user_data) == user_data.sub

\* The GET of the userinfo resource raises: 500.
CbProfileError(i) ==
    /\ cb[i].pc = "profile"
    /\ cb' = [cb EXCEPT ![i] =
                Respond([@ EXCEPT !.profile_end = "raised"], 500)]
    /\ UNCHANGED <<tb, pk, has_cache, GUILDS, roles, now, cache, pending, verifiers, db, lk,
                   ul, created, sess_read>>

\* The profile arrives.  user_data["sub"] raises KeyError when absent and
\* int() raises ValueError on a non-number: 500.  Otherwise
\* upsert_verification is called, which reads the clock for verified_at, and
\* its upsert is awaited.
CbProfile(i, user_data) ==
    /\ cb[i].pc = "profile"
    /\ LET rec == [cb[i] EXCEPT !.profile_end = "answered",
                                 !.user_sub = user_data.sub]
           sub == Sub(user_data)
       IN  cb' = [cb EXCEPT ![i] =
                    IF sub = None \/ ~IsNumeric(Val(sub))
                    THEN Respond(rec, 500)
                    ELSE LET roblox_id == ToInt(Val(sub))
                         IN  [rec EXCEPT !.pc = "upsert",
                                         !.user_names =
                                             <<user_data.preferred_username,
                                               user_data.nickname>>,
                                         !.verified_at = now,
                                         !.roblox_id = roblox_id,
                                         !.roblox_username =
                                             DisplayName(user_data, roblox_id)]]
    /\ UNCHANGED <<tb, pk, has_cache, GUILDS, roles, now, cache, pending, verifiers, db, lk,
                   ul, created, sess_read>>

\* ---------------------------------------------------- Verify._apply_roles
\* bot.get_user(discord_id): the users in the bot's cache, with their names
UserNames == (41 :> <<"a", "l">>)
get_user(discord_id) ==
    IF discord_id \in DOMAIN UserNames THEN Some(UserNames[discord_id]) ELSE None

\* f"https://spst.dev/verify?success=true&rbx={roblox_username}&dc={name}":
\* the query of the URL, the values written into it as they are
SuccessQuery(roblox_username, name) ==
    <<"s", "u", "c", "c", "e", "s", "s", "=", "t", "r", "u", "e">>
        \o <<"&", "r", "b", "x", "=">> \o roblox_username
        \o <<"&", "d", "c", "=">> \o name

\* The invocation is over: the role synchronisation's locals are dropped.
Finish(rec, status) ==
    [Respond(rec, status) EXCEPT !.gi = 0, !.group_check_cache = EmptyDict,
                                 !.member_roles = {}, !.to_add = <<>>]

\* the value of `await self._apply_roles(...)`: the function is declared
\* `-> None` and has no return statement
ApplyRolesResult(rec) == None

\* _apply_roles has returned: `name = user.name if user else "Unknown"` and
\* the HTTPFound response
Redirect(rec) ==
    LET user == get_user(Val(rec.discord_id))
        name == IF user # None THEN Val(user)
                ELSE <<"U", "n", "k", "n", "o", "w", "n">>
    IN  [Finish(rec, 302) EXCEPT
            !.rs_result = Some(ApplyRolesResult(rec)),
            !.location = SuccessQuery(rec.roblox_username, name)]

\* The loop over GUILDS.items() from position k on, up to the next await:
\* entry 0 and guilds the bot does not know are skipped, a known guild's member
\* is fetched; after the last entry _apply_roles returns and the handler
\* answers with the redirect.
RECURSIVE NextGuild(_, _)
NextGuild(rec, k) ==
    IF k > Len(GUILDS) THEN Redirect(rec)
    ELSE IF GUILDS[k][1] = 0 THEN NextGuild(rec, k + 1)
    ELSE IF get_guild(GUILDS[k][1]) = None THEN NextGuild(rec, k + 1)
    ELSE [rec EXCEPT !.pc = "rs_fetch", !.gi = k]

\* history: the tenant at hand ended in this way, with these roles passed to
\* add_roles
Log(rec, end, passed) ==
    [rec EXCEPT !.tenants = Append(@, <<GUILDS[rec.gi][1], end, passed>>)]

\* a tenant's exception that ends the loop: _apply_roles returns
TenantErrorBreaks(rec) == Redirect([rec EXCEPT !.rs_failed = TRUE])

\* a tenant's exception that escapes _apply_roles into the handler's except
TenantErrorEscapes(rec) == Finish([rec EXCEPT !.rs_failed = TRUE], 500)

\* An exception inside the loop body is caught and logged by the body's own
\* except clauses, and the loop goes on with the next guild.
TenantError(rec) ==
    NextGuild([rec EXCEPT !.rs_failed = TRUE, !.member_roles = {},
                          !.to_add = <<>>], rec.gi + 1)

\* roles_to_add: the verified role, then the group-member role of a member
RolesToAdd(guild, g_config, is_group_member) ==
    (IF g_config.VERIFIED_ROLE_ID # 0
        /\ get_role(guild, g_config.VERIFIED_ROLE_ID) # None
     THEN <<g_config.VERIFIED_ROLE_ID>> ELSE <<>>)
    \o
    (IF is_group_member /\ g_config.GROUP_MEMBER_ROLE_ID # 0
        /\ get_role(guild, g_config.GROUP_MEMBER_ROLE_ID) # None
     THEN <<g_config.GROUP_MEMBER_ROLE_ID>> ELSE <<>>)

\* roles_to_add passed on as it is
ToAddUnfiltered(roles_to_add, member_roles) == roles_to_add

\* [r for r in roles_to_add if r not in member.roles]
ToAdd(roles_to_add, member_roles) ==
    LET Missing(r) == r \notin member_roles
    IN  SelectSeq(roles_to_add, Missing)

Range(seq) == {seq[k] : k \in 1..Len(seq)}

\* the reason every add_roles call is given
GRANT_REASON == "Roblox Verification"

\* member.add_roles(*to_add, reason=...) as the call it is
AddRolesCall(g_id, to_add) ==
    [guild |-> g_id, roles |-> to_add, reason |-> GRANT_REASON]

\* a grant that calls add_roles once for each role of to_add
DiffCallPerRole(rec) ==
    LET g_id == GUILDS[rec.gi][1]
        g_config == GUILDS[rec.gi][2]
        is_group_member ==
            DictGet(rec.group_check_cache, g_config.ROBLOX_GROUP_ID, FALSE)
        to_add == ToAdd(RolesToAdd(g_id, g_config, is_group_member),
                        rec.member_roles)
    IN  IF to_add # <<>>
        THEN [rec EXCEPT !.pc = "rs_grant", !.to_add = to_add,
                         !.calls = @ \o [k \in 1..Len(to_add) |->
                                            AddRolesCall(g_id, <<to_add[k]>>)]]
        ELSE NextGuild([Log(rec, "none", <<>>) EXCEPT !.member_roles = {}],
                       rec.gi + 1)

\* From the cached membership result to the next await: the grant when roles
\* are missing, else the next guild.
Diff(rec) ==
    LET g_id == GUILDS[rec.gi][1]
        g_config == GUILDS[rec.gi][2]
        is_group_member ==
            DictGet(rec.group_check_cache, g_config.ROBLOX_GROUP_ID, FALSE)
        to_add == ToAdd(RolesToAdd(g_id, g_config, is_group_member),
                        rec.member_roles)
    IN  IF to_add # <<>>
        THEN [rec EXCEPT !.pc = "rs_grant", !.to_add = to_add,
                         !.calls = Append(@, AddRolesCall(g_id, to_add))]
        ELSE NextGuild([Log(rec, "none", <<>>) EXCEPT !.member_roles = {}],
                       rec.gi + 1)

\* the exception of the upsert leaves the handler uncaught
CbUpsertErrorEscapes(i) ==
    /\ cb[i].pc = "upsert"
    /\ cb' = [cb EXCEPT ![i].pc = "raised"]
    /\ UNCHANGED <<tb, pk, has_cache, GUILDS, roles, now, cache, pending, verifiers, db, lk,
                   ul, created, sess_read>>

\* The upsert raises: 500.
CbUpsertError(i) ==
    /\ cb[i].pc = "upsert"
    /\ cb' = [cb EXCEPT ![i] = Respond(@, 500)]
    /\ UNCHANGED <<tb, pk, has_cache, GUILDS, roles, now, cache, pending, verifiers, db, lk,
                   ul, created, sess_read>>

\* The upsert succeeds, writing the verified_at computed at the call;
\* _apply_roles starts with an empty group_check_cache.
CbUpsert(i) ==
    /\ cb[i].pc = "upsert"
    /\ db' = upsert_verification(db, Val(cb[i].discord_id), cb[i].roblox_id,
                                 cb[i].roblox_username, cb[i].verified_at)
    /\ cb' = [cb EXCEPT ![i] =
                NextGuild([@ EXCEPT !.wrote = TRUE,
                                    !.group_check_cache = EmptyDict,
                                    !.after = {j \in DOMAIN cb :
                                                 /\ cb[j].pc = "done"
                                                 /\ cb[j].status = 302}], 1)]
    /\ UNCHANGED <<tb, pk, has_cache, GUILDS, roles, now, cache, pending, verifiers, lk, ul,
                   created, sess_read>>

\* NotFound taken for a member without roles: the tenant's group is checked
RsFetchNotFoundProceeds(i) ==
    /\ cb[i].pc = "rs_fetch"
    /\ Val(cb[i].discord_id) \notin DOMAIN roles[GUILDS[cb[i].gi][1]]
    /\ cb' = [cb EXCEPT ![i] =
                [@ EXCEPT !.pc = "rs_group", !.group_req = TRUE,
                          !.checks = Append(@, GUILDS[cb[i].gi][2].ROBLOX_GROUP_ID)]]
    /\ UNCHANGED <<tb, pk, has_cache, GUILDS, roles, now, cache, pending, verifiers, db, lk,
                   ul, created, sess_read>>

\* guild.fetch_member raises discord.NotFound, the user is no member of the
\* guild: next guild, nothing is logged.
RsFetchNotFound(i) ==
    /\ cb[i].pc = "rs_fetch"
    /\ Val(cb[i].discord_id) \notin DOMAIN roles[GUILDS[cb[i].gi][1]]
    /\ cb' = [cb EXCEPT ![i] = NextGuild(Log(@, "not_found", <<>>), @.gi + 1)]
    /\ UNCHANGED <<tb, pk, has_cache, GUILDS, roles, now, cache, pending, verifiers, db, lk,
                   ul, created, sess_read>>

\* guild.fetch_member raises another error: a warning, next guild.
RsFetchError(i) ==
    /\ cb[i].pc = "rs_fetch"
    /\ cb' = [cb EXCEPT ![i] = TenantError(Log(@, "fetch_error", <<>>))]
    /\ UNCHANGED <<tb, pk, has_cache, GUILDS, roles, now, cache, pending, verifiers, db, lk,
                   ul, created, sess_read>>

\* a group_check_cache kept on the cog: the results of the other invocations
\* are found in it
RsFetchSharedCache(i) ==
    /\ cb[i].pc = "rs_fetch"
    /\ Val(cb[i].discord_id) \in DOMAIN roles[GUILDS[cb[i].gi][1]]
    /\ LET g_id == GUILDS[cb[i].gi][1]
           group == GUILDS[cb[i].gi][2].ROBLOX_GROUP_ID
           others == {j \in DOMAIN cb :
                         j # i /\ group \in DOMAIN cb[j].group_check_cache}
           shared == IF group \in DOMAIN cb[i].group_check_cache \/ others = {}
                     THEN cb[i].group_check_cache
                     ELSE DictPut(cb[i].group_check_cache, group,
                                  cb[CHOOSE j \in others : TRUE]
                                      .group_check_cache[group])
           rec == [cb[i] EXCEPT
                      !.member_roles = roles[g_id][Val(cb[i].discord_id)],
                      !.group_check_cache = shared]
       IN  cb' = [cb EXCEPT ![i] =
                    IF group \notin DOMAIN rec.group_check_cache
                    THEN [rec EXCEPT !.pc = "rs_group", !.group_req = TRUE,
                                     !.checks = Append(@, group)]
                    ELSE Diff(rec)]
    /\ UNCHANGED <<tb, pk, has_cache, GUILDS, roles, now, cache, pending, verifiers, db, lk,
                   ul, created, sess_read>>

\* guild.fetch_member returns the member with the roles held now; a group not
\* yet in group_check_cache is checked remotely.
RsFetch(i) ==
    /\ cb[i].pc = "rs_fetch"
    /\ Val(cb[i].discord_id) \in DOMAIN roles[GUILDS[cb[i].gi][1]]
    /\ LET g_id == GUILDS[cb[i].gi][1]
           group == GUILDS[cb[i].gi][2].ROBLOX_GROUP_ID
           rec == [cb[i] EXCEPT
                      !.member_roles = roles[g_id][Val(cb[i].discord_id)]]
       IN  cb' = [cb EXCEPT ![i] =
                    IF group \notin DOMAIN rec.group_check_cache
                    THEN [rec EXCEPT !.pc = "rs_group", !.group_req = TRUE,
                                     !.checks = Append(@, group)]
                    ELSE Diff(rec)]
    /\ UNCHANGED <<tb, pk, has_cache, GUILDS, roles, now, cache, pending, verifiers, db, lk,
                   ul, created, sess_read>>

\* what the membership GET does: a status code, or an exception that is no
\* HTTPStatusError
GroupOutcomes == {"200", "204", "404", "500", "error"}

\* is_member: True for a response with a 2xx status
IsMemberAny2xx(outcome) == outcome \in {"200", "204"}

\* is_member: True only for a response with status 200
IsMember(outcome) == outcome = "200"

\* a result that is kept only when it is True
CacheResultIfMember(group_check_cache, group, is_member) ==
    IF is_member THEN DictPut(group_check_cache, group, is_member)
    ELSE group_check_cache

\* group_check_cache[target_group_id] = is_member
CacheResult(group_check_cache, group, is_member) ==
    DictPut(group_check_cache, group, is_member)

\* The membership check ends; its result is cached whatever it was.
RsGroup(i, outcome) ==
    /\ cb[i].pc = "rs_group"
    /\ LET group == GUILDS[cb[i].gi][2].ROBLOX_GROUP_ID
       IN  cb' = [cb EXCEPT ![i] =
                    Diff([@ EXCEPT !.group_check_cache =
                              CacheResult(@, group, IsMember(outcome)),
                            !.outcomes = DictPut(@, group, outcome),
                            !.rs_failed = @ \/ outcome \notin {"200", "404"}])]
    /\ UNCHANGED <<tb, pk, has_cache, GUILDS, roles, now, cache, pending, verifiers, db, lk,
                   ul, created, sess_read>>

\* add_roles that applies the first role of to_add only
RsGrantFirstOnly(i) ==
    /\ cb[i].pc = "rs_grant"
    /\ Val(cb[i].discord_id) \in DOMAIN roles[GUILDS[cb[i].gi][1]]
    /\ LET g_id == GUILDS[cb[i].gi][1]
           member == Val(cb[i].discord_id)
       IN  roles' = [roles EXCEPT ![g_id][member] = @ \cup {cb[i].to_add[1]}]
    /\ cb' = [cb EXCEPT ![i] =
                NextGuild([Log(@, "granted", @.to_add) EXCEPT
                               !.granted = TRUE, !.member_roles = {},
                               !.to_add = <<>>], @.gi + 1)]
    /\ UNCHANGED <<tb, pk, has_cache, GUILDS, now, cache, pending, verifiers, db, lk, ul,
                   created, sess_read>>

\* member.add_roles(*to_add, reason="Roblox Verification") succeeds, which it
\* does for a member who is still in the guild
RsGrant(i) ==
    /\ cb[i].pc = "rs_grant"
    /\ Val(cb[i].discord_id) \in DOMAIN roles[GUILDS[cb[i].gi][1]]
    /\ LET g_id == GUILDS[cb[i].gi][1]
           member == Val(cb[i].discord_id)
       IN  roles' = [roles EXCEPT ![g_id][member] = @ \cup Range(cb[i].to_add)]
    /\ cb' = [cb EXCEPT ![i] =
                NextGuild([Log(@, "granted", @.to_add) EXCEPT
                               !.granted = TRUE, !.member_roles = {},
                               !.to_add = <<>>], @.gi + 1)]
    /\ UNCHANGED <<tb, pk, has_cache, GUILDS, now, cache, pending, verifiers, db, lk, ul,
                   created, sess_read>>

\* member.add_roles raises (among its causes: the member has left the guild):
\* caught by the loop body's except, next guild
RsGrantError(i) ==
    /\ cb[i].pc = "rs_grant"
    /\ cb' = [cb EXCEPT ![i] = TenantError(Log(@, "grant_error", @.to_add))]
    /\ UNCHANGED <<tb, pk, has_cache, GUILDS, roles, now, cache, pending, verifiers, db, lk,
                   ul, created, sess_read>>

\* ------------------------------------------------ tux.modules.moderation
\* guild g without member m
RemoveMember(r, g, m) ==
    [r EXCEPT ![g] = [x \in (DOMAIN r[g]) \ {m} |-> r[g][x]]]

\* Kick.kick on a member of the guild: ctx.guild.kick(member) is issued and
\* the member leaves the guild.  For a user who is no member the command only
\* answers.
Kick(guild, member) ==
    /\ member \in DOMAIN roles[guild]
    /\ roles' = RemoveMember(roles, guild, member)
    /\ UNCHANGED <<tb, pk, has_cache, GUILDS, now, cache, pending, verifiers, db, lk, ul,
                   cb, created, sess_read>>

\* TempBan.tempban on a member or a user: ctx.guild.ban(member) is issued,
\* the guild holds the ban and a member leaves the guild (a ban of a user
\* the guild has banned already leaves the ban as it is).  The case that
\* moderate_user hands to the case store lives in that store: the checker
\* meets it as one of the cases get_expired_tempbans returns.
Tempban(guild, member) ==
    /\ tb' = [tb EXCEPT !.bans[guild] = @ \cup {member}]
    /\ roles' = RemoveMember(roles, guild, member)
    /\ UNCHANGED <<pk, has_cache, GUILDS, now, cache, pending, verifiers, db, lk, ul,
                   cb, created, sess_read>>

\* ------------------------------------------------------- the specification
LinkSteps ==
    \/ \E n \in LinkIds, author \in Requesters, guild \in LinkGuilds :
           LinkStart(n, author, guild)
    \/ \E n \in LinkIds : LinkLookup(n)
    \/ \E n \in LinkIds : LinkSetDiscord(n)
    \/ \E n \in LinkIds : LinkSetGuild(n)
    \/ \E n \in LinkIds : LinkSetVerifier(n)
    \/ \E n \in LinkIds : LinkSend(n)
    \/ \E n \in LinkIds : LinkSendError(n)

UnlinkSteps ==
    \/ \E u \in UnlinkIds, author \in Requesters : UnlinkStart(u, author)
    \/ \E u \in UnlinkIds : UnlinkLookup(u)
    \/ \E u \in UnlinkIds : UnlinkDelete(u)
    \/ \E u \in UnlinkIds : UnlinkSend(u)
    \/ \E u \in UnlinkIds : UnlinkSendError(u)

CallbackSteps ==
    \/ \E i \in CbIds, code \in CodeInputs, state \in StateInputs :
           CbStart(i, code, state)
    \/ \E i \in CbIds : CbGetDiscord(i)
    \/ \E i \in CbIds : CbGetGuild(i)
    \/ \E i \in CbIds : CbGetVerifier(i)
    \/ \E i \in CbIds : CbDelDiscord(i)
    \/ \E i \in CbIds : CbDelGuild(i)
    \/ \E i \in CbIds : CbDelVerifier(i)
    \/ \E i \in CbIds : CbTokenError(i)
    \/ \E i \in CbIds, access_token \in TokenInputs : CbToken(i, access_token)
    \/ \E i \in CbIds : CbProfileError(i)
    \/ \E i \in CbIds, user_data \in ProfileInputs : CbProfile(i, user_data)
    \/ \E i \in CbIds : CbUpsertError(i)
    \/ \E i \in CbIds : CbUpsert(i)

\* the steps of _apply_roles for a user who is a member of the guild
MemberSteps ==
    \/ \E i \in CbIds : RsFetchError(i)
    \/ \E i \in CbIds : RsFetch(i)
    \/ \E i \in CbIds, outcome \in GroupOutcomes : RsGroup(i, outcome)
    \/ \E i \in CbIds : RsGrant(i)
    \/ \E i \in CbIds : RsGrantError(i)

ApplyRolesSteps ==
    \/ \E i \in CbIds : RsFetchNotFound(i)
    \/ MemberSteps

Handlers == LinkSteps \/ UnlinkSteps \/ CallbackSteps \/ ApplyRolesSteps

\* ----------------------------------------------- one flow under the clock
\* One link request and the callbacks that may come for it, with the clock
\* and with every endpoint failing or answering.  No unlink runs and no
\* moderator acts: both requesters stay members of guild 7.
FlowNext ==
    \/ LinkSteps
    \/ CallbackSteps
    \/ MemberSteps
    \/ Tick

FlowSpec == Init /\ [][FlowNext]_vars

\* ------------------------------------------------ two sessions side by side
\* Two link requests and the callbacks for the states they issued, under the
\* default configuration (GUILDS = {0: VerificationConfig()}): no clock, no
\* failing endpoint, no unlink, so that the sessions, the exchanges and the
\* writes of two flows interleave in every order.
PairLinks == 2
PairLinkIds == 1..PairLinks

DefaultGuilds ==
    << <<0, VerificationConfig(DEFAULT_ROLE_ID, DEFAULT_ROLE_ID,
                               DEFAULT_ROBLOX_GROUP_ID)>> >>

\* the access tokens the token endpoint issues
PairTokens == {"tok1", "tok2"}

\* the provider's userinfo resource: the profile of the account a token was
\* issued for
userinfo(access_token) ==
    IF access_token = "tok1"
    THEN [sub |-> Some(ToStr(900)), preferred_username |-> Some(Nova),
          nickname |-> None]
    ELSE [sub |-> Some(ToStr(901)), preferred_username |-> Some(Nick),
          nickname |-> None]

PairInit ==
    /\ has_cache \in BOOLEAN
    /\ GUILDS = DefaultGuilds
    /\ now = 0
    /\ cache = EmptyDict
    /\ pending = EmptyDict
    /\ verifiers = EmptyDict
    /\ db = {}
    /\ lk = [n \in PairLinkIds |-> IdleLink]
    /\ ul = [u \in UnlinkIds |-> IdleUnlink]
    /\ cb = [i \in CbIds |-> IdleCb]
    /\ roles = InitRoles
    /\ created = EmptyDict
    /\ sess_read = {}
    /\ pk = IdlePk
    /\ tb = IdleTb

\* the steps of the pair that use neither backend's awaited calls
PairMapSteps ==
    \/ \E n \in PairLinkIds, author \in Requesters, guild \in LinkGuilds :
          LinkStart(n, author, guild)
    \/ \E n \in PairLinkIds : LinkLookup(n)
    \/ \E n \in PairLinkIds : LinkSend(n)
    \/ \E i \in CbIds, n \in PairLinkIds :
          CbStart(i, Some("xyz"), Some(StateTok[n]))
    \/ \E i \in CbIds, tok \in PairTokens : CbToken(i, Some(tok))
    \/ \E i \in CbIds :
          /\ cb[i].access_token # None
          /\ CbProfile(i, userinfo(Val(cb[i].access_token)))
    \/ \E i \in CbIds : CbUpsert(i)

\* the awaited calls of the cache backend
PairCacheSteps ==
    \/ \E n \in PairLinkIds : LinkSetDiscord(n)
    \/ \E n \in PairLinkIds : LinkSetGuild(n)
    \/ \E n \in PairLinkIds : LinkSetVerifier(n)
    \/ \E i \in CbIds : CbGetDiscord(i)
    \/ \E i \in CbIds : CbGetGuild(i)
    \/ \E i \in CbIds : CbGetVerifier(i)
    \/ \E i \in CbIds : CbDelDiscord(i)
    \/ \E i \in CbIds : CbDelGuild(i)
    \/ \E i \in CbIds : CbDelVerifier(i)

PairNext == PairMapSteps \/ PairCacheSteps

PairSpec == PairInit /\ [][PairNext]_vars

\* -------------------------------------------------- unlink between the flows
\* The two flows of PairSpec over the in-process maps, with unlink requests
\* of either requester at any moment and with messages that fail to be sent.
UnlinkInit ==
    /\ PairInit
    /\ has_cache = FALSE

UnlinkNext ==
    \/ PairMapSteps
    \/ \E n \in PairLinkIds : LinkSendError(n)
    \/ UnlinkSteps

UnlinkSpec == UnlinkInit /\ [][UnlinkNext]_vars

\* ------------------------------------------ role synchronisations side by side
\* Two link requests have been answered with their URLs and the callback of
\* each has come as far as awaiting its upsert (in-process maps, no clock):
\* from here the writes and the two runs of _apply_roles interleave in every
\* order, over two tenants that share a Roblox group.  Requester 42 is no
\* member of guild 8, and a moderator may kick requester 41 from either guild
\* at any moment.
RoleKicked == 41

RoleRoles ==
    (7 :> ((41 :> {300}) @@ (42 :> {100, 300})))
    @@ (8 :> (41 :> {}))

SentLink(n, author) ==
    [pc |-> "done", author |-> author, guild |-> 7, state |-> StateTok[n],
     verifier |-> VerifierTok[n], challenge |-> ChallengeTok[n], sent |-> "url",
     url |-> Some(AuthQuery(StateTok[n], ChallengeTok[n]))]

AwaitingUpsert(n, author) ==
    [IdleCb EXCEPT !.pc = "upsert", !.code = Some("xyz"),
                   !.state = Some(StateTok[n]), !.discord_id = Some(author),
                   !.guild_id = Some(7),
                   !.code_verifier = Some(VerifierTok[n]),
                   !.access_token = Some("tok1"), !.roblox_id = 900,
                   !.roblox_username = Nova, !.looked_up = TRUE,
                   !.token_req = TRUE, !.profile_req = TRUE,
                   !.token_end = "answered", !.profile_end = "answered",
                   !.user_sub = Some(ToStr(900)),
                   !.user_names = <<Some(Nova), None>>]

RoleInit ==
    /\ has_cache = FALSE
    /\ GUILDS \in {TwoGuilds, SplitGuilds}
    /\ now = 0
    /\ cache = EmptyDict
    /\ pending = EmptyDict
    /\ verifiers = EmptyDict
    /\ db = {}
    /\ \E authors \in [CbIds -> Requesters] :
          /\ lk = [n \in CbIds |-> SentLink(n, authors[n])]
          /\ cb = [i \in CbIds |-> AwaitingUpsert(i, authors[i])]
          /\ created = [s \in {StateTok[n] : n \in CbIds} |-> 0]
          /\ sess_read = {StateTok[n] : n \in CbIds}
          /\ pk = IdlePk
          /\ tb = IdleTb
    /\ ul = [u \in UnlinkIds |-> IdleUnlink]
    /\ roles = RoleRoles

RoleNext ==
    \/ \E guild \in BotGuilds : Kick(guild, RoleKicked)
    \/ \E i \in CbIds : CbUpsertError(i)
    \/ \E i \in CbIds : CbUpsert(i)
    \/ \E i \in CbIds : RsFetchNotFound(i)
    \/ \E i \in CbIds : RsFetchError(i)
    \/ \E i \in CbIds : RsFetch(i)
    \/ \E i \in CbIds, outcome \in GroupOutcomes : RsGroup(i, outcome)
    \/ \E i \in CbIds : RsGrant(i)
    \/ \E i \in CbIds : RsGrantError(i)

RoleSpec == RoleInit /\ [][RoleNext]_vars

\* ------------------------------------------------------ profiles of all kinds
\* Two callbacks await the userinfo resource (in-process maps, default
\* configuration); the profile that arrives has or lacks each of its three
\* fields, with empty names and, among the values of `sub`, a leading zero,
\* a sign, blanks around the number, an underscore between digits and one
\* after them, a carriage return after the number, a form feed before a digit
\* of another script; and a profile whose `sub` has one digit more than
\* int() converts.
WideProfileInputs ==
    [sub : {None, Some(<<"x">>), Some(ToStr(900)), Some(<<"0", "7">>),
            Some(<<" ", "+", "9", "_", "0", " ">>), Some(<<"-", "5">>),
            Some(<<"9", "_">>), Some(<<"9", "0", "0", "\r">>),
            Some(<<"\f", "U+0663">>)},
     preferred_username : {None, Some(<<>>), Some(Nova)},
     nickname : {None, Some(<<>>), Some(Nick)}]
    \cup {[sub |-> Some([k \in 1..(MAX_STR_DIGITS + 1) |-> "9"]),
           preferred_username |-> Some(Nova), nickname |-> None]}

AwaitingProfile(n, author) ==
    [IdleCb EXCEPT !.pc = "profile", !.code = Some("xyz"),
                   !.state = Some(StateTok[n]), !.discord_id = Some(author),
                   !.guild_id = Some(7),
                   !.code_verifier = Some(VerifierTok[n]),
                   !.access_token = Some("tok1"), !.looked_up = TRUE,
                   !.token_req = TRUE, !.profile_req = TRUE,
                   !.token_end = "answered"]

ProfileInit ==
    /\ has_cache = FALSE
    /\ GUILDS = DefaultGuilds
    /\ now = 0
    /\ cache = EmptyDict
    /\ pending = EmptyDict
    /\ verifiers = EmptyDict
    /\ db = {}
    /\ \E authors \in [CbIds -> Requesters] :
          /\ lk = [n \in CbIds |-> SentLink(n, authors[n])]
          /\ cb = [i \in CbIds |-> AwaitingProfile(i, authors[i])]
          /\ created = [s \in {StateTok[n] : n \in CbIds} |-> 0]
          /\ sess_read = {StateTok[n] : n \in CbIds}
          /\ pk = IdlePk
          /\ tb = IdleTb
    /\ ul = [u \in UnlinkIds |-> IdleUnlink]
    /\ roles = InitRoles

ProfileNext ==
    \/ \E i \in CbIds : CbProfileError(i)
    \/ \E i \in CbIds, user_data \in WideProfileInputs : CbProfile(i, user_data)
    \/ \E i \in CbIds : CbUpsertError(i)
    \/ \E i \in CbIds : CbUpsert(i)

ProfileSpec == ProfileInit /\ [][ProfileNext]_vars

\* --------------------------------------------- drawings of state and pair
\* What token_bytes(n) may draw: the n bytes (slope * i + 251 * offset) % 256,
\* among them all-zero bytes and bytes whose encoding holds "-" and "_".
Entropy(n, slope, offset) == [i \in 1..n |-> (slope * i + 251 * offset) % 256]

ChallengeInit ==
    /\ has_cache = FALSE
    /\ GUILDS = OneGuild
    /\ now = 0
    /\ cache = EmptyDict
    /\ pending = EmptyDict
    /\ verifiers = EmptyDict
    /\ db = {}
    /\ lk = [n \in LinkIds |-> IdleLink]
    /\ ul = [u \in UnlinkIds |-> IdleUnlink]
    /\ cb = [i \in CbIds |-> IdleCb]
    /\ roles = InitRoles
    /\ created = EmptyDict
    /\ sess_read = {}
    /\ tb = IdleTb
    /\ \E slope \in 0..MaxSlope, offset \in 0..MaxOffset :
          pk = [IdlePk EXCEPT
                   !.state_bytes = Entropy(STATE_NBYTES, offset, slope),
                   !.verifier_bytes = Entropy(VERIFIER_NBYTES, slope, offset)]

\* link, for an author without linkage and without cache service, draws the
\* state and the PKCE pair, stores the session under the state in the
\* in-process maps and builds the authorization URL, all before it awaits
\* ctx.send
LinkChallenge(author, guild) ==
    /\ pk.pc = "idle"
    /\ ~has_cache
    /\ get_by_discord_id(db, author) = None
    /\ LET state == token_urlsafe(pk.state_bytes)
           params == generate_challenge(pk.verifier_bytes)
       IN  /\ pending' = DictPut(pending, state,
                                 [discord_id |-> author, guild_id |-> guild])
           /\ verifiers' = DictPut(verifiers, state, params.verifier)
           /\ created' = DictPut(created, state, now)
           /\ pk' = [pk EXCEPT !.pc = "done", !.state = state, !.params = params,
                               !.url = Some(AuthQuery(quote(state),
                                                        quote(params.challenge)))]
    /\ UNCHANGED <<tb, has_cache, GUILDS, now, cache, db, lk, ul, cb, roles,
                   sess_read>>

ChallengeNext ==
    \E author \in Requesters, guild \in LinkGuilds : LinkChallenge(author, guild)

ChallengeSpec == ChallengeInit /\ [][ChallengeNext]_vars

\* ------------------------------------------------------------- TempBan
\* The case store (self.db.case) is a service outside the program: what
\* get_expired_tempbans returns is an input of the step that awaits it, and
\* of set_tempban_expired the program knows that it returned or raised.  The
\* cases the store may return: a tempban of a user in a guild the bot is in,
\* one in a guild it is not in, a global one (guild_id 0) and one without a
\* user id.
CasePool ==
    <<[id |-> 1, case_user_id |-> 41, guild_id |-> 7],
      [id |-> 2, case_user_id |-> 42, guild_id |-> 9],
      [id |-> 3, case_user_id |-> 41, guild_id |-> 0],
      [id |-> 4, case_user_id |-> 0, guild_id |-> 7]>>

\* the users a guild may have banned at the start
BannedUsers == {41}

\* list(self.bot.guilds)
BotGuildSeq == <<7, 8>>

RECURSIVE Ascending(_)
Ascending(S) ==
    IF S = {} THEN <<>>
    ELSE LET least == CHOOSE x \in S : \A y \in S : x <= y
         IN  <<least>> \o Ascending(S \ {least})

\* what `await self.db.case.get_expired_tempbans(0)` may return: any of the
\* cases, at most MaxCases of them
ExpiredLists ==
    {Ascending(S) : S \in {T \in SUBSET DOMAIN CasePool : Cardinality(T) <= MaxCases}}

\* `if not (case.case_user_id and case.id)`
InvalidCase(case) == case.case_user_id = 0 \/ case.id = 0

\* `if any_success or case.guild_id == 0`
ShouldMark(any_success, guild_id) == any_success \/ guild_id = 0

\* an exit that leaves the flag as it is
ExitKeepsFlag(s, t, end) ==
    [s EXCEPT !.run[t] = [IdleRun EXCEPT !.pc = "done", !.end = end]]

\* check_tempbans returns or raises after it set the flag: the finally clause
\* clears it, and the locals of the call are gone
Exit(s, t, end) ==
    [s EXCEPT !.processing = FALSE,
              !.run[t] = [IdleRun EXCEPT !.pc = "done", !.end = end]]

\* _process_tempban_case returns (processed, failed) for the case at hand
Return(s, t, processed, failed) ==
    [s EXCEPT !.run[t] =
        [@ EXCEPT !.todo = Tail(@),
                  !.guilds = <<>>, !.any_success = FALSE, !.case_failed = 0,
                  !.processed = @ + processed,
                  !.failed = @ + failed]]

RECURSIVE NextCase(_, _)
\* after the loop over the guilds: the marking when it is due, else the return
AfterGuilds(s, t) ==
    LET r == s.run[t]
        case == CasePool[Head(r.todo)]
    IN  IF ShouldMark(r.any_success, case.guild_id)
        THEN [s EXCEPT !.run[t].pc = "mark"]
        ELSE NextCase(Return(s, t, 0, r.case_failed), t)

\* the loop over the guilds up to the next await
GuildLoop(s, t) ==
    IF s.run[t].guilds # <<>> THEN [s EXCEPT !.run[t].pc = "fetch_ban"]
    ELSE AfterGuilds(s, t)

\* The loop over all_expired_cases up to the next await: a case without valid
\* data or of an unknown guild returns (0, 1) at once; after the last case
\* check_tempbans ends.
NextCase(s, t) ==
    LET r == s.run[t]
    IN  IF r.todo = <<>> THEN Exit(s, t, "completed")
        ELSE LET case == CasePool[Head(r.todo)]
             IN  IF InvalidCase(case)
                 THEN NextCase(Return(s, t, 0, 1), t)
                 ELSE IF case.guild_id = 0
                 THEN GuildLoop([s EXCEPT !.run[t].guilds = BotGuildSeq], t)
                 ELSE IF get_guild(case.guild_id) = None
                 THEN NextCase(Return(s, t, 0, 1), t)
                 ELSE GuildLoop([s EXCEPT !.run[t].guilds = <<case.guild_id>>], t)

\* the guild at hand is done with: the next one
GuildDone(s, t) == GuildLoop([s EXCEPT !.run[t].guilds = Tail(@)], t)

TempFrame ==
    UNCHANGED <<pk, has_cache, GUILDS, now, cache, pending, verifiers, db, lk, ul, cb,
                roles, created, sess_read>>

\* A tick of the loop: nothing in maintenance mode, a skip when the flag is
\* set, else the flag is set and the expired cases are awaited.
TbStart(t, maintenance_mode) ==
    /\ tb.run[t].pc = "idle"
    /\ \A u \in TempTicks : u < t => tb.run[u].pc # "idle"
    /\ tb' = IF maintenance_mode
             THEN [tb EXCEPT !.run[t] = [@ EXCEPT !.pc = "done",
                                                  !.end = "maintenance"]]
             ELSE IF tb.processing
             THEN [tb EXCEPT !.run[t] = [@ EXCEPT !.pc = "done",
                                                  !.end = "skipped"]]
             ELSE [tb EXCEPT !.processing = TRUE, !.run[t].pc = "collect"]
    /\ TempFrame

\* get_expired_tempbans raises
TbCollectError(t) ==
    /\ tb.run[t].pc = "collect"
    /\ tb' = Exit(tb, t, "raised")
    /\ TempFrame

\* get_expired_tempbans returns all_expired_cases: the end when there is no
\* case, else the loop
TbCollect(t, all_expired_cases) ==
    /\ tb.run[t].pc = "collect"
    /\ tb' = IF all_expired_cases = <<>> THEN Exit(tb, t, "empty")
             ELSE NextCase([tb EXCEPT !.run[t].todo = all_expired_cases], t)
    /\ TempFrame

\* guild.fetch_ban returns the ban, or raises NotFound when there is none
TbFetchBan(t) ==
    /\ tb.run[t].pc = "fetch_ban"
    /\ LET r == tb.run[t]
           user == CasePool[Head(r.todo)].case_user_id
       IN  tb' = IF user \in tb.bans[Head(r.guilds)]
                 THEN [tb EXCEPT !.run[t].pc = "unban"]
                 ELSE GuildDone(tb, t)
    /\ TempFrame

\* guild.fetch_ban raises another exception: failed = 1
TbFetchBanError(t) ==
    /\ tb.run[t].pc = "fetch_ban"
    /\ tb' = GuildDone([tb EXCEPT !.run[t].case_failed = 1], t)
    /\ TempFrame

\* guild.unban succeeds: any_success = True
TbUnban(t) ==
    /\ tb.run[t].pc = "unban"
    /\ LET r == tb.run[t]
           user == CasePool[Head(r.todo)].case_user_id
           guild == Head(r.guilds)
       IN  tb' = GuildDone([tb EXCEPT !.bans[guild] = @ \ {user},
                                      !.lifted = @ \cup {<<Head(r.todo), guild>>},
                                      !.run[t].any_success = TRUE], t)
    /\ TempFrame

\* guild.unban raises NotFound: the ban was lifted in the meantime
TbUnbanNotFound(t) ==
    /\ tb.run[t].pc = "unban"
    /\ LET r == tb.run[t]
           user == CasePool[Head(r.todo)].case_user_id
       IN  tb' = GuildDone([tb EXCEPT !.bans[Head(r.guilds)] = @ \ {user}], t)
    /\ TempFrame

\* guild.unban raises another exception: failed = 1
TbUnbanError(t) ==
    /\ tb.run[t].pc = "unban"
    /\ tb' = GuildDone([tb EXCEPT !.run[t].case_failed = 1], t)
    /\ TempFrame

\* TempBan.cog_unload cancels the loop while the execution is suspended at
\* one of its awaits: CancelledError is no Exception, so neither except
\* clause of the loop over the guilds catches it; it leaves
\* _process_tempban_case and check_tempbans, whose finally clause clears the
\* flag.  The case at hand and the cases after it are left as they are.
TbCancel(t) ==
    /\ tb.run[t].pc \in {"collect", "fetch_ban", "unban", "mark"}
    /\ tb' = Exit(tb, t, "raised")
    /\ TempFrame

\* set_tempban_expired(case.id, case.guild_id) returns: processed = 1, and
\* the next case
TbMark(t) ==
    /\ tb.run[t].pc = "mark"
    /\ LET r == tb.run[t]
           case == CasePool[Head(r.todo)]
           marked == [tb EXCEPT !.marked = @ \cup {case.id}]
       IN  tb' = NextCase(Return(marked, t, 1, r.case_failed), t)
    /\ TempFrame

\* set_tempban_expired raises: the exception leaves the loop and
\* check_tempbans
TbMarkError(t) ==
    /\ tb.run[t].pc = "mark"
    /\ tb' = Exit(tb, t, "raised")
    /\ TempFrame

TempInit ==
    /\ has_cache = FALSE
    /\ GUILDS = DefaultGuilds
    /\ now = 0
    /\ cache = EmptyDict
    /\ pending = EmptyDict
    /\ verifiers = EmptyDict
    /\ db = {}
    /\ lk = [n \in LinkIds |-> IdleLink]
    /\ ul = [u \in UnlinkIds |-> IdleUnlink]
    /\ cb = [i \in CbIds |-> IdleCb]
    /\ roles = InitRoles
    /\ created = EmptyDict
    /\ sess_read = {}
    /\ pk = IdlePk
    /\ \E bans \in [BotGuilds -> SUBSET BannedUsers] :
          tb = [IdleTb EXCEPT !.bans = bans]

TempNext ==
    \/ \E guild \in BotGuilds, member \in BannedUsers : Tempban(guild, member)
    \/ \E t \in TempTicks, maintenance_mode \in BOOLEAN :
          TbStart(t, maintenance_mode)
    \/ \E t \in TempTicks : TbCollectError(t)
    \/ \E t \in TempTicks, all_expired_cases \in ExpiredLists :
          TbCollect(t, all_expired_cases)
    \/ \E t \in TempTicks : TbFetchBan(t)
    \/ \E t \in TempTicks : TbFetchBanError(t)
    \/ \E t \in TempTicks : TbUnban(t)
    \/ \E t \in TempTicks : TbUnbanNotFound(t)
    \/ \E t \in TempTicks : TbUnbanError(t)
    \/ \E t \in TempTicks : TbCancel(t)
    \/ \E t \in TempTicks : TbMark(t)
    \/ \E t \in TempTicks : TbMarkError(t)

TempSpec == TempInit /\ [][TempNext]_vars

\* ------------------------------------------------------ the whole program
\* Every handler, the clock, the moderators and the tempban checker together.
\* The specifications above are parts of it, each small enough to be explored
\* whole.
Moderation ==
    \/ \E guild \in BotGuilds, member \in Requesters : Kick(guild, member)
    \/ \E guild \in BotGuilds, member \in Requesters : Tempban(guild, member)

Next == Handlers \/ Tick \/ Moderation \/ TempNext

Spec == Init /\ [][Next]_vars

\* ================================================================ claims
\* the invocation was answered with this status
Answered(i, status) == cb[i].pc = "done" /\ cb[i].status = status

\* invocations i and j carry the same, present state
SameState(i, j) == i # j /\ cb[i].state # None /\ cb[i].state = cb[j].state

\* the invocation passed the session check and went on to the token exchange
Proceeded(i) == cb[i].token_req

\* the invocation made no outbound request, wrote no linkage, granted no role
NoEffect(i) ==
    /\ ~cb[i].token_req /\ ~cb[i].profile_req /\ ~cb[i].group_req
    /\ ~cb[i].wrote /\ ~cb[i].granted

\* nothing of the session of state s is stored in either backend
SessionGone(s) ==
    /\ s \notin DOMAIN pending
    /\ s \notin DOMAIN verifiers
    /\ \A k \in DOMAIN cache : k[2] # s

\* C1: with the cache backend, of the callback invocations that carry the same
\* state at most one passes the session check and goes on to the token
\* exchange, and every other one is answered 400.
C1_CacheOneWinner ==
    has_cache =>
        \A i, j \in CbIds :
            SameState(i, j) /\ Proceeded(i) =>
                /\ ~Proceeded(j)
                /\ cb[j].pc = "done" => cb[j].status = 400

\* C2: with the in-process maps, of the invocations that carry the same state
\* at most one obtains anything of the session, it obtains the requester id,
\* the tenant id and the verifier together, the others are answered 400, and
\* a session that left the maps was obtained by exactly one invocation.
C2_MemoryOneWinner ==
    ~has_cache =>
        /\ \A i \in CbIds :
              /\ cb[i].discord_id # None <=> cb[i].code_verifier # None
              /\ cb[i].discord_id # None <=> cb[i].guild_id # None
        /\ \A i, j \in CbIds :
              SameState(i, j) /\ cb[i].discord_id # None =>
                  /\ cb[j].discord_id = None /\ cb[j].code_verifier = None
                  /\ cb[j].pc # "idle" => Answered(j, 400)
        /\ \A s \in DOMAIN created :
              SessionGone(s) =>
                  Cardinality({i \in CbIds : /\ cb[i].state = Some(s)
                                             /\ cb[i].code_verifier # None}) = 1

C2_Witness ==
    /\ ~has_cache
    /\ \E i, j \in CbIds :
          /\ SameState(i, j)
          /\ Proceeded(i) /\ cb[i].pc # "done"
          /\ cb[j].looked_up /\ Answered(j, 400)

\* C3: an invocation that starts after another one has read the whole session
\* of the same state is answered 400, is given no session and writes nothing.
C3_SingleUse ==
    \A i \in CbIds :
        cb[i].replay =>
            /\ ~Proceeded(i) /\ ~cb[i].wrote
            /\ cb[i].pc = "done" => cb[i].status = 400

\* C4: with the in-process maps, an invocation that starts more than 600 s
\* after the session of its state was created obtains nothing and is answered
\* 400, and no entry stays in the maps beyond 600 s after its creation.
C4_MemoryExpiry ==
    ~has_cache =>
        /\ \A i \in CbIds :
              cb[i].late =>
                  /\ cb[i].discord_id = None /\ cb[i].code_verifier = None
                  /\ cb[i].pc = "done" => cb[i].status = 400
        /\ \A s \in DOMAIN pending \cup DOMAIN verifiers :
              now <= created[s] + 600

\* C5: with the cache backend, every stored key expires at most 600 s after it
\* was set (the requester key exactly 600 s after the session's creation),
\* and an invocation that starts more than 600 s after the creation of the
\* session of its state is answered 400 and has no effect.
C5_CacheExpiry ==
    has_cache =>
        /\ \A k \in DOMAIN cache :
              /\ now < cache[k].exp /\ cache[k].exp <= now + 600
              /\ k[1] = "discord_id" => cache[k].exp = created[k[2]] + 600
        /\ \A i \in CbIds :
              cb[i].late =>
                  /\ NoEffect(i)
                  /\ cb[i].pc = "done" => cb[i].status = 400

\* a late invocation that still found the verifier key, the requester key
\* having expired
C5_Witness ==
    /\ has_cache
    /\ \E i \in CbIds :
          /\ cb[i].late /\ Answered(i, 400)
          /\ cb[i].discord_id = None /\ cb[i].code_verifier # None

\* C6: an invocation whose state no link request has stored a session for is
\* answered 400 and makes no outbound request, no linkage write and no grant.
C6_UnknownState ==
    \A i \in CbIds :
        cb[i].looked_up /\ Val(cb[i].state) \notin DOMAIN created =>
            /\ NoEffect(i)
            /\ cb[i].pc = "done" => cb[i].status = 400

C6_Witness ==
    \E i \in CbIds :
        /\ cb[i].state = Some(UnknownState)
        /\ cb[i].looked_up /\ Answered(i, 400)

\* C7: every step an invocation takes after its upsert succeeded leaves the
\* linkage table unchanged, and when the invocation ends it ends with 302.
C7_AfterUpsert ==
    [][\A i \in CbIds :
          cb[i].wrote /\ cb'[i] # cb[i] =>
              /\ db' = db
              /\ cb'[i].pc = "done" => cb'[i].status = 302]_vars

\* an invocation ended with 302 after a failure inside role synchronisation and
\* without any grant, its linkage being stored
C7_Witness ==
    \E i \in CbIds :
        /\ cb[i].wrote /\ cb[i].rs_failed /\ ~cb[i].granted
        /\ Answered(i, 302)
        /\ get_by_discord_id(db, Val(cb[i].discord_id)) # None

\* the token exchange raised, or its answer carried no access token
TokenFailed(rec) ==
    \/ rec.token_end = "raised"
    \/ rec.token_end = "answered"
       /\ (rec.access_token = None \/ rec.access_token = Some(""))

\* C8: after a failed token exchange the invocation is answered 500, has not
\* called the profile endpoint, written a linkage or granted a role, and the
\* session of its state is gone.
C8_TokenFailure ==
    \A i \in CbIds :
        TokenFailed(cb[i]) =>
            /\ Answered(i, 500)
            /\ ~cb[i].profile_req /\ ~cb[i].group_req
            /\ ~cb[i].wrote /\ ~cb[i].granted
            /\ SessionGone(Val(cb[i].state))

C8_Witness ==
    \E i \in CbIds :
        /\ cb[i].token_end = "answered" /\ cb[i].access_token = Some("")
        /\ Answered(i, 500)

\* the profile fetch raised, or its answer had no `sub` or a `sub` that is no
\* number
ProfileFailed(rec) ==
    \/ rec.profile_end = "raised"
    \/ rec.profile_end = "answered"
       /\ (rec.user_sub = None \/ rec.user_sub = Some(<<"x">>))

\* C9: a failed profile fetch ends the invocation with 500; the step leaves
\* the linkage table as it was, and the invocation has written no linkage and
\* has not entered role synchronisation.
C9_ProfileFailure ==
    [][\A i \in CbIds :
          ProfileFailed(cb'[i]) =>
              /\ cb'[i].pc = "done" /\ cb'[i].status = 500
              /\ ~cb'[i].wrote /\ ~cb'[i].group_req /\ ~cb'[i].granted
              /\ cb'[i].gi = 0
              /\ cb[i].pc = "profile" => db' = db]_vars

C9_Witness ==
    \E i \in CbIds :
        /\ cb[i].profile_end = "answered" /\ cb[i].user_sub = None
        /\ Answered(i, 500)

\* C10: an invocation whose code or state is absent or empty is answered 400
\* without any session lookup, outbound request or linkage write.
C10_MissingParameters ==
    \A i \in CbIds :
        /\ cb[i].pc # "idle"
        /\ \/ cb[i].code = None \/ cb[i].code = Some("")
           \/ cb[i].state = None \/ cb[i].state = Some("")
        => /\ Answered(i, 400)
           /\ ~cb[i].looked_up
           /\ NoEffect(i)

C10_Witness ==
    \E i, j \in CbIds :
        /\ cb[i].code = Some("xyz") /\ cb[i].state = Some("")
        /\ cb[j].code = None /\ cb[j].state = Some(StateTok[1])
        /\ Answered(i, 400) /\ Answered(j, 400)
        /\ StateTok[1] \in DOMAIN created /\ ~SessionGone(StateTok[1])

\* the requester of the link request that created the session of state s
SessionRequester(s) ==
    LET n == CHOOSE n \in DOMAIN lk : StateTok[n] = s IN lk[n].author

\* the value of a parameter of a query string k1=v1&k2=v2..., as a client
\* reads it: None when the query has no such parameter
QueryParam(query, key) ==
    LET starts == {k \in 1..Len(query) :
                      /\ k = 1 \/ query[k - 1] = "&"
                      /\ k + Len(key) <= Len(query)
                      /\ SubSeq(query, k, k + Len(key) - 1) = key
                      /\ query[k + Len(key)] = "="}
    IN  IF starts = {} THEN None
        ELSE LET k == CHOOSE k \in starts : \A m \in starts : k <= m
                 from == k + Len(key) + 1
                 ends == {e \in from..Len(query) : query[e] = "&"}
                 to == IF ends = {} THEN Len(query)
                       ELSE (CHOOSE e \in ends : \A m \in ends : e <= m) - 1
             IN  Some(SubSeq(query, from, to))

\* the step in which invocation i has its linkage written
Writes(i) == ~cb[i].wrote /\ cb'[i].wrote

\* the string is present and not empty
Filled(name) == name # None /\ Val(name) # <<>>

\* the name a profile resolves to
ResolvedName(user_data) ==
    IF Filled(user_data.preferred_username)
    THEN Val(user_data.preferred_username)
    ELSE IF Filled(user_data.nickname) THEN Val(user_data.nickname)
    ELSE ToStr(ToInt(Val(user_data.sub)))

\* the linkage invocation i has to write, from what the session and the
\* profile hold
LinkageOf(i) ==
    [discord_id |-> SessionRequester(Val(cb[i].state)),
     roblox_id |-> ToInt(Val(cb[i].user_sub)),
     roblox_username |-> ResolvedName([sub |-> cb[i].user_sub,
                                       preferred_username |-> cb[i].user_names[1],
                                       nickname |-> cb[i].user_names[2]])]

\* C11: the linkage a callback writes is the one of the requester stored in
\* the session of its state, with the number of the profile's `sub` as the
\* external id and the profile's name as the display name; a callback
\* answered 302 wrote its linkage, and the `rbx` parameter of the redirect is
\* that display name.
C11_SuccessLinkage ==
    [][\A i \in CbIds :
          /\ Writes(i) =>
                LET row == get_by_discord_id(db', LinkageOf(i).discord_id)
                IN  /\ row # None
                    /\ Val(row).roblox_id = LinkageOf(i).roblox_id
                    /\ Val(row).roblox_username = LinkageOf(i).roblox_username
          /\ cb'[i].pc = "done" /\ cb'[i].status = 302 =>
                /\ cb'[i].wrote
                /\ QueryParam(cb'[i].location, <<"r", "b", "x">>)
                      = Some(LinkageOf(i).roblox_username)]_vars

\* the verifier the link request drew for the session of state s
SessionVerifier(s) ==
    LET n == CHOOSE n \in DOMAIN lk : StateTok[n] = s IN lk[n].verifier

\* what the two backends hold of the session of state s
SessionOf(s) ==
    <<DictLookup(pending, s), DictLookup(verifiers, s),
      [k \in {x \in DOMAIN cache : x[2] = s} |-> cache[k]]>>

\* the states the link requests have issued
IssuedStates == {lk[n].state : n \in DOMAIN lk} \ {""}

\* C12: callbacks for different states do not interfere.  In every
\* interleaving an invocation that goes to the token endpoint carries the
\* verifier of the session of its own state; the linkage it writes is the one
\* of the requester of that session, with the profile of the token it was
\* given itself; and none of its steps changes what is stored of the session
\* of another state.
C12_NoInterference ==
    [][\A i \in CbIds :
          /\ cb'[i].token_req =>
                cb'[i].code_verifier
                    = Some(SessionVerifier(Val(cb'[i].state)))
          /\ Writes(i) =>
                LET requester == SessionRequester(Val(cb[i].state))
                    profile == userinfo(Val(cb[i].access_token))
                    row == {r \in db' : r.discord_id = requester}
                IN  /\ Cardinality(row) = 1
                    /\ \A r \in row :
                          /\ r.roblox_id = ToInt(Val(profile.sub))
                          /\ Some(r.roblox_username)
                                = profile.preferred_username
          /\ cb'[i] # cb[i] =>
                \A s \in IssuedStates \ {Val(cb'[i].state)} :
                    SessionOf(s)' = SessionOf(s)]_vars

\* two invocations for the states of two requesters are under way together:
\* one has written its linkage, the other has its profile and awaits its
\* write
C12_Witness ==
    \E i, j \in CbIds :
        /\ cb[i].state # cb[j].state
        /\ cb[i].discord_id # None /\ cb[j].discord_id # None
        /\ cb[i].discord_id # cb[j].discord_id
        /\ cb[i].access_token # cb[j].access_token
        /\ cb[i].wrote /\ cb[j].pc = "upsert"
\* the linkages the table holds for a requester
LinkagesOf(table, requester) == {row \in table : row.discord_id = requester}

\* C13: the table never holds more than one linkage of a requester, and the
\* step in which a callback writes leaves exactly one linkage of its
\* requester, holding the external id and the name of that write, whatever
\* linkage of the requester an earlier write had left.
C13_OneLinkage ==
    [][/\ \A r \in Requesters : Cardinality(LinkagesOf(db', r)) <= 1
       /\ \A i \in CbIds :
             Writes(i) =>
                 LinkagesOf(db', Val(cb[i].discord_id))
                     = {[discord_id |-> Val(cb[i].discord_id),
                         roblox_id |-> cb[i].roblox_id,
                         roblox_username |-> cb[i].roblox_username,
                         verified_at |-> cb[i].verified_at]}]_vars

\* two callbacks wrote for the same requester with different external ids,
\* and the one linkage of the requester holds the second one's
C13_Witness ==
    \E i, j \in CbIds :
        /\ cb[i].wrote /\ cb[j].wrote
        /\ cb[i].discord_id = cb[j].discord_id
        /\ cb[i].roblox_id = 900 /\ cb[j].roblox_id = 901
        /\ \E row \in db :
              /\ LinkagesOf(db, Val(cb[j].discord_id)) = {row}
              /\ row.roblox_id = 901
\* the attempt ended before persistence: no session (400), or the provider
\* gave no token or no usable profile (500)
EndedEarly(rec) ==
    /\ rec.pc = "done"
    /\ \/ rec.status = 400
       \/ rec.token_end = "raised"
       \/ rec.token_end = "answered"
          /\ (rec.access_token = None \/ rec.access_token = Some(""))
       \/ rec.profile_end = "raised"
       \/ rec.profile_end = "answered"
          /\ (rec.user_sub = None \/ rec.user_sub = Some(<<"x">>))

\* C14: a linkage of requester r appears or changes only in the write step of
\* a callback that read the session a link request of r created, whose
\* session is no longer stored, and that was answered by the token endpoint
\* with a token and by the profile endpoint; a member's roles change only in
\* a step of an invocation that has written its linkage; an attempt that ended
\* early has written no linkage and granted no role.
C14_WriteOrder ==
    [][/\ \A r \in Requesters :
             LinkagesOf(db', r) # LinkagesOf(db, r) /\ LinkagesOf(db', r) # {} =>
                 \E i \in CbIds : Writes(i) /\ cb[i].discord_id = Some(r)
       /\ \A i \in CbIds :
             Writes(i) =>
                 /\ \E n \in DOMAIN lk :
                       /\ lk[n].pc # "idle" /\ lk[n].pc # "lookup"
                       /\ Some(lk[n].state) = cb[i].state
                       /\ Some(lk[n].author) = cb[i].discord_id
                 /\ SessionGone(Val(cb[i].state))
                 /\ cb[i].token_end = "answered"
                 /\ cb[i].access_token \notin {None, Some("")}
                 /\ cb[i].profile_end = "answered"
                 /\ LinkagesOf(db', Val(cb[i].discord_id)) # {}
       /\ roles' # roles =>
             \E i \in CbIds : cb[i].wrote /\ cb[i].pc = "rs_grant"
                               /\ cb'[i].granted
       /\ \A i \in CbIds :
             /\ cb'[i].granted => cb'[i].wrote
             /\ EndedEarly(cb'[i]) => ~cb'[i].wrote /\ ~cb'[i].granted]_vars

\* one attempt got through to its write and its grant, another ended early
C14_Witness ==
    \E i, j \in CbIds :
        /\ cb[i].wrote /\ cb[i].granted
        /\ LinkagesOf(db, Val(cb[i].discord_id)) # {}
        /\ EndedEarly(cb[j])
\* the step in which invocation i computes a diff that is not empty and calls
\* add_roles
\* the first tenant of a run ended with an error of add_roles and the second
\* was granted its roles
C19_Witness ==
    \E i \in CbIds :
        /\ cb[i].pc = "done" /\ cb[i].status = 302
        /\ Len(cb[i].tenants) = 2
        /\ cb[i].tenants[1][2] = "grant_error"
        /\ cb[i].tenants[2][2] = "granted"
\* the requester of the run is a member of the guild
IsGuildMember(rec, g_id) ==
    g_id \in DOMAIN roles /\ Val(rec.discord_id) \in DOMAIN roles[g_id]

CallsGrant(i) == cb[i].pc # "rs_grant" /\ cb'[i].pc = "rs_grant"

\* the guild of the tenant invocation i is at
GuildAt(rec) == GUILDS[rec.gi][1]

\* no step of a callback takes a role from a member or a member from a guild
NoRoleRemoved ==
    cb' # cb =>
        \A g \in DOMAIN roles :
            /\ DOMAIN roles'[g] = DOMAIN roles[g]
            /\ \A m \in DOMAIN roles[g] : roles[g][m] \subseteq roles'[g][m]

\* C15 as stated: no step removes a role, and the roles passed to add_roles
\* are roles the member does not hold at the moment the diff is computed.
C15_Original ==
    [][/\ NoRoleRemoved
       /\ \A i \in CbIds :
             CallsGrant(i) /\ IsGuildMember(cb[i], GuildAt(cb'[i])) =>
                 Range(cb'[i].to_add)
                     \cap roles[GuildAt(cb'[i])][Val(cb[i].discord_id)] = {}]_vars

\* C15: no step removes a role, and the roles passed to add_roles are roles
\* the member did not hold when this run fetched the member of the tenant
\* (the diff is computed against that fetched member, after the membership
\* check that may come in between).
C15_Additive ==
    [][/\ NoRoleRemoved
       /\ \A i \in CbIds :
             CallsGrant(i) =>
                 /\ cb'[i].to_add # <<>>
                 /\ Range(cb'[i].to_add) \cap cb'[i].member_roles = {}]_vars

\* a member who held roles when fetched is about to be granted others, and
\* holds a role by now that the fetch had not shown
C15_Witness ==
    \E i \in CbIds :
        /\ cb[i].pc = "rs_grant"
        /\ cb[i].member_roles # {}
        /\ cb[i].to_add # <<>>
        /\ IsGuildMember(cb[i], GuildAt(cb[i]))
        /\ roles[GuildAt(cb[i])][Val(cb[i].discord_id)] # cb[i].member_roles
\* the ways the tenants of a run ended
Ends(rec) == {rec.tenants[k][2] : k \in 1..Len(rec.tenants)}

\* the run was answered 302 and every tenant it reached ended without an
\* error: roles granted, nothing to grant, or no member
CleanRun(rec) ==
    /\ rec.pc = "done" /\ rec.status = 302
    /\ Ends(rec) \subseteq {"granted", "none", "not_found"}

\* every membership result the later run has seen so far is the one the
\* earlier run had seen for the group: member (200) or not
SameResults(earlier, later) ==
    \A group \in DOMAIN later.outcomes :
        /\ group \in DOMAIN earlier.outcomes
        /\ (later.outcomes[group] = "200") = (earlier.outcomes[group] = "200")

\* C16: when a run for a requester ended without an error and a second run
\* for the same requester starts after it and sees the same membership
\* results, the second run finds nothing to add in any tenant and never calls
\* add_roles.
C16_Idempotent ==
    \A i, j \in CbIds :
        /\ i \in cb[j].after
        /\ cb[i].discord_id = cb[j].discord_id
        /\ CleanRun(cb[i])
        /\ SameResults(cb[i], cb[j])
        => /\ cb[j].pc # "rs_grant"
           /\ Ends(cb[j]) \subseteq {"none", "not_found", "fetch_error"}

\* a run granted roles in both tenants, and a second run of the same
\* requester, started after it, went through both tenants with the same
\* membership result and found nothing to add
C16_Witness ==
    \E i, j \in CbIds :
        /\ i \in cb[j].after
        /\ cb[i].discord_id = cb[j].discord_id
        /\ CleanRun(cb[i])
        /\ Len(cb[i].tenants) = 2 /\ Ends(cb[i]) = {"granted"}
        /\ cb[j].pc = "done"
        /\ DOMAIN cb[j].outcomes # {} /\ SameResults(cb[i], cb[j])
        /\ Len(cb[j].tenants) = 2 /\ Ends(cb[j]) = {"none"}
\* C17: a run requests the membership of a group at most once, whatever the
\* request gave, and the result every tenant of the run works with is the one
\* of that first request: member only when it answered 200.
C17_OneCheckPerGroup ==
    \A i \in CbIds :
        /\ \A a, b \in 1..Len(cb[i].checks) :
              cb[i].checks[a] = cb[i].checks[b] => a = b
        /\ \A group \in DOMAIN cb[i].group_check_cache :
              /\ group \in DOMAIN cb[i].outcomes
              /\ cb[i].group_check_cache[group]
                    = (cb[i].outcomes[group] = "200")
        /\ cb[i].pc = "rs_grant" =>
              LET g_config == GUILDS[cb[i].gi][2]
              IN  g_config.GROUP_MEMBER_ROLE_ID \in Range(cb[i].to_add) =>
                      /\ g_config.ROBLOX_GROUP_ID \in DOMAIN cb[i].outcomes
                      /\ cb[i].outcomes[g_config.ROBLOX_GROUP_ID] = "200"

\* a run went through two tenants of the same group with one request, which
\* had failed
C17_Witness ==
    \E i \in CbIds :
        /\ cb[i].pc = "done"
        /\ GUILDS = TwoGuilds
        /\ Len(cb[i].tenants) = 2
        /\ Ends(cb[i]) \subseteq {"granted", "none"}
        /\ cb[i].checks = <<55>>
        /\ cb[i].outcomes[55] = "500"
\* the roles a tenant's configuration asks for, for a member holding `held`
\* whose membership check gave `outcome`
Expected(g_config, held, outcome) ==
    (IF g_config.VERIFIED_ROLE_ID # 0 /\ g_config.VERIFIED_ROLE_ID \notin held
     THEN {g_config.VERIFIED_ROLE_ID} ELSE {})
    \cup
    (IF /\ g_config.GROUP_MEMBER_ROLE_ID # 0
        /\ g_config.GROUP_MEMBER_ROLE_ID \notin held
        /\ outcome = "200"
     THEN {g_config.GROUP_MEMBER_ROLE_ID} ELSE {})

\* the tenants log of invocation i grows in this step by an entry of this end
EndsTenant(i, end) ==
    /\ Len(cb'[i].tenants) = Len(cb[i].tenants) + 1
    /\ cb'[i].tenants[Len(cb'[i].tenants)][2] = end

\* C18: in a tenant whose member was fetched, the roles passed to add_roles
\* are exactly the verified role when configured and not held by the fetched
\* member, and the group-member role when configured, not held and the
\* membership check of the tenant's group answered 200 (no call when there
\* are none); whatever else the check gave, the verified role is passed and
\* the group-member role is not.  A call that succeeds gives the member
\* exactly the roles of the configuration it did not hold.
C18_ExactRoles ==
    [][\A i \in CbIds :
          /\ /\ cb[i].pc \in {"rs_fetch", "rs_group"}
             /\ CallsGrant(i) \/ EndsTenant(i, "none")
             => LET g_config == GUILDS[cb[i].gi][2]
                    held == IF cb[i].pc = "rs_fetch"
                            THEN roles[GuildAt(cb[i])][Val(cb[i].discord_id)]
                            ELSE cb[i].member_roles
                    outcome == cb'[i].outcomes[g_config.ROBLOX_GROUP_ID]
                    passed == IF CallsGrant(i) THEN Range(cb'[i].to_add)
                              ELSE {}
                IN  passed = Expected(g_config, held, outcome)
          /\ cb[i].pc = "rs_grant" /\ EndsTenant(i, "granted")
             => LET g_config == GUILDS[cb[i].gi][2]
                    held == roles[GuildAt(cb[i])][Val(cb[i].discord_id)]
                    outcome == cb[i].outcomes[g_config.ROBLOX_GROUP_ID]
                IN  roles'[GuildAt(cb[i])][Val(cb[i].discord_id)] \ held
                        = Expected(g_config, held, outcome)]_vars

\* a member whose membership check answered 404 was granted the verified
\* role of guild 7 and not its group-member role
C18_Witness ==
    \E i \in CbIds :
        /\ cb[i].discord_id = Some(41)
        /\ 55 \in DOMAIN cb[i].outcomes /\ cb[i].outcomes[55] = "404"
        /\ \E k \in 1..Len(cb[i].tenants) :
              cb[i].tenants[k] = <<7, "granted", <<100>> >>
        /\ roles[7][41] = {100, 300}
\* the guilds of the configured tenants _apply_roles has to reach, in the
\* order of GUILDS: not the default entry, and guilds the bot is in
RECURSIVE Reachable(_)
Reachable(k) ==
    IF k > Len(GUILDS) THEN <<>>
    ELSE IF GUILDS[k][1] # 0 /\ GUILDS[k][1] \in BotGuilds
         THEN <<GUILDS[k][1]>> \o Reachable(k + 1)
         ELSE Reachable(k + 1)

\* an earlier tenant of the run ended with an error
HadError(rec) == Ends(rec) \cap {"fetch_error", "grant_error"} # {}

\* C19: a tenant that ends with an error (member fetch, add_roles) does not
\* end the run: the step goes on to the next tenant there is, or to the 302
\* when there is none; a run that was answered after its write has gone
\* through every tenant there is, in order; and in a run that had an error the
\* roles passed for a later tenant are the ones its configuration asks for,
\* as in a run without the error.
C19_ErrorIsolation ==
    [][\A i \in CbIds :
          /\ EndsTenant(i, "fetch_error") \/ EndsTenant(i, "grant_error") =>
                IF Reachable(cb[i].gi + 1) = <<>>
                THEN cb'[i].pc = "done" /\ cb'[i].status = 302
                ELSE /\ cb'[i].pc = "rs_fetch"
                     /\ GuildAt(cb'[i]) = Reachable(cb[i].gi + 1)[1]
          /\ cb'[i].pc = "done" /\ cb'[i].wrote =>
                /\ cb'[i].status = 302
                /\ [k \in 1..Len(cb'[i].tenants) |-> cb'[i].tenants[k][1]]
                      = Reachable(1)
          /\ /\ HadError(cb[i])
             /\ cb[i].pc \in {"rs_fetch", "rs_group"}
             /\ CallsGrant(i) \/ EndsTenant(i, "none")
             => LET g_config == GUILDS[cb[i].gi][2]
                    held == IF cb[i].pc = "rs_fetch"
                            THEN roles[GuildAt(cb[i])][Val(cb[i].discord_id)]
                            ELSE cb[i].member_roles
                    outcome == cb'[i].outcomes[g_config.ROBLOX_GROUP_ID]
                IN  IF Expected(g_config, held, outcome) = {}
                    THEN ~CallsGrant(i)
                    ELSE /\ CallsGrant(i)
                         /\ Range(cb'[i].to_add)
                               = Expected(g_config, held, outcome)]_vars

\* C20 as stated: the step in which a run requests a group membership or
\* calls add_roles for a tenant is taken for a requester who is a member of
\* that tenant's guild at that moment.
C20_Original ==
    [][\A i \in CbIds :
          /\ cb'[i].checks # cb[i].checks =>
                IsGuildMember(cb[i], GuildAt(cb'[i]))
          /\ CallsGrant(i) => IsGuildMember(cb[i], GuildAt(cb'[i]))]_vars

\* C20: a run never works on the default entry 0, and in a tenant in which
\* its fetch finds the requester no member it does nothing: the step that
\* finds the requester missing requests no membership, calls no add_roles,
\* changes no role and goes on to the next tenant there is (or to the 302); a
\* membership is requested, for the group of the tenant at hand, only in the
\* step in which the fetch found the requester a member, and add_roles is
\* called only for a tenant whose fetch found the member; no step of a run
\* gives roles to a user who is no member of the guild.
C20_SkippedTenants ==
    [][\A i \in CbIds :
          /\ cb'[i].pc \in {"rs_fetch", "rs_group", "rs_grant"} =>
                GuildAt(cb'[i]) # 0
          /\ \A k \in 1..Len(cb'[i].tenants) : cb'[i].tenants[k][1] # 0
          /\ cb'[i].checks # cb[i].checks =>
                /\ cb[i].pc = "rs_fetch"
                /\ IsGuildMember(cb[i], GuildAt(cb[i]))
                /\ cb'[i].checks
                      = Append(cb[i].checks,
                               GUILDS[cb[i].gi][2].ROBLOX_GROUP_ID)
          /\ cb'[i].pc = "rs_group" /\ cb[i].pc # "rs_group" =>
                cb[i].pc = "rs_fetch" /\ IsGuildMember(cb[i], GuildAt(cb[i]))
          /\ CallsGrant(i) =>
                \/ cb[i].pc = "rs_group" /\ cb'[i].gi = cb[i].gi
                \/ /\ cb[i].pc = "rs_fetch" /\ cb'[i].gi = cb[i].gi
                   /\ IsGuildMember(cb[i], GuildAt(cb[i]))
          /\ cb'[i] # cb[i] =>
                \A g \in DOMAIN roles : DOMAIN roles'[g] = DOMAIN roles[g]
          /\ /\ cb[i].pc = "rs_fetch"
             /\ ~IsGuildMember(cb[i], GuildAt(cb[i]))
             /\ cb'[i] # cb[i]
             => /\ EndsTenant(i, "not_found") \/ EndsTenant(i, "fetch_error")
                /\ cb'[i].checks = cb[i].checks
                /\ cb'[i].calls = cb[i].calls
                /\ roles' = roles
                /\ IF Reachable(cb[i].gi + 1) = <<>>
                   THEN cb'[i].pc = "done" /\ cb'[i].status = 302
                   ELSE /\ cb'[i].pc = "rs_fetch"
                        /\ GuildAt(cb'[i]) = Reachable(cb[i].gi + 1)[1]]_vars

\* requester 42, no member of guild 8, was skipped there without a check of
\* group 56 and was then granted a role in guild 7; requester 41 was kicked
\* from guild 7 and then skipped there
C20_Witness ==
    \E i, j \in CbIds :
        /\ cb[j].discord_id = Some(41)
        /\ 41 \notin DOMAIN roles[7]
        /\ \E k \in 1..Len(cb[j].tenants) :
              cb[j].tenants[k] = <<7, "not_found", <<>> >>
        /\ cb[i].discord_id = Some(42)
        /\ GUILDS = SplitGuilds
        /\ Len(cb[i].tenants) = 2
        /\ cb[i].tenants[1] = <<8, "not_found", <<>> >>
        /\ cb[i].tenants[2][1] = 7 /\ cb[i].tenants[2][2] = "granted"
        /\ cb[i].checks = <<55>>
\* C21: group_check_cache belongs to one run.  A run starts with an empty
\* one; whatever it holds the run has requested itself; a tenant is diffed
\* only with a membership the run has requested itself; and nothing of it is
\* left when the invocation is answered.
C21_CachePerRun ==
    [][\A i \in CbIds :
          /\ Writes(i) => cb'[i].checks = <<>> /\ cb'[i].outcomes = EmptyDict
          /\ DOMAIN cb'[i].group_check_cache \subseteq Range(cb'[i].checks)
          /\ DOMAIN cb'[i].group_check_cache \subseteq DOMAIN cb'[i].outcomes
          /\ /\ cb[i].pc \in {"rs_fetch", "rs_group"}
             /\ CallsGrant(i) \/ EndsTenant(i, "none")
             => GUILDS[cb[i].gi][2].ROBLOX_GROUP_ID \in Range(cb'[i].checks)
          /\ cb'[i].pc = "done" => cb'[i].group_check_cache = EmptyDict]_vars

\* the runs of two requesters were under way together, each requested the
\* membership of group 55 itself, and the two requests gave different results
C21_Witness ==
    \E i, j \in CbIds :
        /\ cb[i].discord_id = Some(41) /\ cb[j].discord_id = Some(42)
        /\ cb[i].pc = "rs_grant" /\ cb[j].pc = "rs_grant"
        /\ 55 \in Range(cb[i].checks) /\ 55 \in Range(cb[j].checks)
        /\ cb[i].group_check_cache[55] = FALSE
        /\ cb[j].group_check_cache[55] = TRUE
\* the guilds of the tenants of a run that ended in one of these ways
TenantsEnded(rec, ends) ==
    {rec.tenants[k][1] :
        k \in {x \in 1..Len(rec.tenants) : rec.tenants[x][2] \in ends}}

\* the groups whose membership check of the run failed: neither 200 nor 404
GroupsFailed(rec) ==
    {group \in DOMAIN rec.outcomes : rec.outcomes[group] \notin {"200", "404"}}

\* C22: what _apply_roles gives back to the handler is a result that names
\* the tenants in which roles were applied and the tenants and groups in
\* which a role application or a membership check failed.
C22_StructuredResult ==
    \A i \in CbIds :
        cb[i].rs_result # None =>
            LET result == Val(cb[i].rs_result)
            IN  /\ result # None
                /\ result.applied = TenantsEnded(cb[i], {"granted"})
                /\ result.errors
                     = TenantsEnded(cb[i], {"fetch_error", "grant_error"})
                         \cup GroupsFailed(cb[i])
\* the awaits of an invocation that has passed the session check
Outbound == {"token", "profile", "upsert", "rs_fetch", "rs_group", "rs_grant"}

\* a bound on the awaits an invocation still has before it, at most three for
\* each entry of GUILDS not yet gone through
Rank(rec) ==
    CASE rec.pc = "token" -> 3 * Len(GUILDS) + 6
      [] rec.pc = "profile" -> 3 * Len(GUILDS) + 5
      [] rec.pc = "upsert" -> 3 * Len(GUILDS) + 4
      [] rec.pc = "rs_fetch" -> 3 * (Len(GUILDS) - rec.gi) + 3
      [] rec.pc = "rs_group" -> 3 * (Len(GUILDS) - rec.gi) + 2
      [] rec.pc = "rs_grant" -> 3 * (Len(GUILDS) - rec.gi) + 1
      [] OTHER -> 0

\* some outcome of the call invocation i awaits can be taken up by the handler
CanGoOn(i) ==
    \/ ENABLED CbTokenError(i)
    \/ ENABLED CbProfileError(i)
    \/ ENABLED CbUpsertError(i)
    \/ ENABLED RsFetchError(i)
    \/ \E outcome \in GroupOutcomes : ENABLED RsGroup(i, outcome)
    \/ ENABLED RsGrantError(i)

\* C23: an invocation that has passed the session check is never stuck and
\* never left by an exception: at each of its awaits the handler takes up the
\* call's outcome, every step brings it to a later await or to its response,
\* with fewer awaits left, the response is a 302 or a 500, and once answered
\* the invocation does nothing more.
C23_OneResponse ==
    /\ [](\A i \in CbIds : cb[i].pc \in Outbound => CanGoOn(i))
    /\ [][\A i \in CbIds :
          /\ cb[i].pc \in Outbound =>
                /\ cb'[i].pc \in Outbound \cup {"done"}
                /\ cb'[i] # cb[i] => Rank(cb'[i]) < Rank(cb[i])
                /\ cb'[i].pc = "done" => cb'[i].status \in {302, 500}
          /\ cb[i].pc = "done" => cb'[i] = cb[i]]_vars

\* an invocation was answered 302 although its membership check had raised
\* and add_roles had failed
C23_Witness ==
    \E i \in CbIds :
        /\ Answered(i, 302) /\ "grant_error" \in Ends(cb[i])
        /\ 55 \in DOMAIN cb[i].outcomes /\ cb[i].outcomes[55] = "error"
\* C24: whatever profile a callback goes on with to its write, the display
\* name it holds is the profile's preferred_username when that is present and
\* not empty, else its nickname when that is present and not empty, else the
\* decimal string of the external id; and that name is the one its write
\* stores in the linkage.
C24_DisplayName ==
    [][\A i \in CbIds :
          /\ cb[i].pc = "profile" /\ cb'[i].pc = "upsert" =>
                \A user_data \in WideProfileInputs :
                    cb'[i].user_sub = user_data.sub /\ CbProfile(i, user_data) =>
                        cb'[i].roblox_username = ResolvedName(user_data)
          /\ Writes(i) =>
                \A row \in LinkagesOf(db', Val(cb[i].discord_id)) :
                    row.roblox_username = cb[i].roblox_username]_vars

\* a profile without names and with `sub` 07 was stored under the name 7,
\* and a profile was stored under its nickname
C24_Witness ==
    \E i, j \in CbIds :
        /\ cb[i].wrote /\ cb[i].user_sub = Some(<<"0", "7">>)
        /\ cb[i].roblox_username = <<"7">>
        /\ cb[j].wrote /\ cb[j].roblox_username = Nick
        /\ \E row \in db : row.roblox_username = Nick

\* the characters RFC 7636 allows in a code verifier
Unreserved == {UrlSafeAlphabet[k] : k \in 1..64} \cup {".", "~"}

\* C25: every verifier that generate_challenge produces is 43 to 128 characters
\* long and holds only URL-safe characters.
C25_VerifierShape ==
    pk.pc = "done" =>
        /\ Len(pk.params.verifier) \in 43..128
        /\ \A k \in 1..Len(pk.params.verifier) : pk.params.verifier[k] \in Unreserved

\* a verifier of 86 characters with "-" and "_" among them was produced
C25_Witness ==
    /\ pk.pc = "done"
    /\ Len(pk.params.verifier) = 86
    /\ \E j, k \in 1..86 : pk.params.verifier[j] = "-" /\ pk.params.verifier[k] = "_"

\* base64url of the SHA-256 digest of the verifier, padding included
S256Padded(verifier) == urlsafe_b64encode(Sha256(Encode(verifier)))

\* the challenge of the verifier "AAA...A" (86 characters)
ChallengeOfAllA ==
    <<
      "4", "W", "W", "a", "1", "U", "B", "j", "o", "3", "n", "3", "f", "-",
      "4", "Q", "i", "j", "d", "q", "a", "n", "1", "a", "4", "9", "D", "E",
      "N", "7", "-", "E", "c", "g", "O", "W", "O", "9", "A", "H", "j", "f",
      "w"
    >>

\* C26: the challenge of every produced pair is the base64url encoding of the
\* SHA-256 digest of its verifier without the padding, it is never the
\* verifier itself, and the authorization URL carries it under
\* code_challenge_method=S256.
C26_S256 ==
    pk.pc = "done" =>
        /\ \E pad \in {<<>>, <<"=">>, <<"=", "=">>} :
              pk.params.challenge \o pad = S256Padded(pk.params.verifier)
        /\ \A k \in 1..Len(pk.params.challenge) : pk.params.challenge[k] # "="
        /\ pk.params.challenge # pk.params.verifier
        /\ Val(pk.url).code_challenge_method = "S256"
        /\ Val(pk.url).code_challenge = pk.params.challenge

\* the pair of the all-zero drawing was produced, with the known digest
C26_Witness ==
    /\ pk.pc = "done"
    /\ pk.params.verifier = [k \in 1..86 |-> "A"]
    /\ pk.params.challenge = ChallengeOfAllA
    /\ Val(pk.url).code_challenge_method = "S256"

\* the S256 challenge of a verifier of the sessions
S256Tok(verifier) ==
    ChallengeTok[CHOOSE k \in DOMAIN VerifierTok : VerifierTok[k] = verifier]

\* the link requests that created the session of state s
LinksOf(s) == {n \in DOMAIN lk : lk[n].state = s}

\* C27: PKCE binding.  The code_verifier a callback for state s has sent to the
\* token endpoint is the verifier generated by the link request that created
\* the session of s, and the authorization URL that link request sends
\* carries s as its state and the S256 challenge of that verifier.
C27_PkceBinding ==
    /\ \A i \in CbIds :
          cb[i].token_req =>
              /\ Cardinality(LinksOf(Val(cb[i].state))) = 1
              /\ \A n \in LinksOf(Val(cb[i].state)) :
                    /\ cb[i].code_verifier = Some(lk[n].verifier)
                    /\ lk[n].url # None =>
                          /\ Val(lk[n].url).state = Val(cb[i].state)
                          /\ Val(lk[n].url).code_challenge
                                = S256Tok(Val(cb[i].code_verifier))
                          /\ Val(lk[n].url).code_challenge_method = "S256"
    /\ \A n \in DOMAIN lk :
          lk[n].url # None =>
              /\ Val(lk[n].url).state = lk[n].state
              /\ Val(lk[n].url).code_challenge = S256Tok(lk[n].verifier)

\* the callbacks of two sessions have both gone to the token endpoint, each
\* with the verifier whose challenge its own URL carried
C27_Witness ==
    \E i, j \in CbIds :
        /\ cb[i].token_req /\ cb[j].token_req
        /\ cb[i].state = Some(StateTok[1]) /\ cb[j].state = Some(StateTok[2])
        /\ cb[i].code_verifier = Some(VerifierTok[1])
        /\ cb[j].code_verifier = Some(VerifierTok[2])
        /\ lk[1].url # None /\ lk[2].url # None
        /\ Val(lk[1].url).code_challenge = ChallengeTok[1]
        /\ Val(lk[2].url).code_challenge = ChallengeTok[2]

\* the add_roles calls invocation i has issued for guild g
CallsFor(rec, g) == {k \in 1..Len(rec.calls) : rec.calls[k].guild = g}

\* C28: per tenant and per run, role synchronisation issues at most one
\* add_roles call; the call carries the whole addition set (every role the
\* configuration asks for that the fetched member does not hold)
\* with the reason "Roblox Verification"; a tenant whose addition set is empty
\* ends without a call.
C28_OneGrantCall ==
    [][\A i \in CbIds :
          /\ \A g \in BotGuilds : Cardinality(CallsFor(cb'[i], g)) <= 1
          /\ CallsGrant(i) \/ EndsTenant(i, "none")
             => LET g_config == GUILDS[cb[i].gi][2]
                    held == IF cb[i].pc = "rs_fetch"
                            THEN roles[GuildAt(cb[i])][Val(cb[i].discord_id)]
                            ELSE cb[i].member_roles
                    outcome == cb'[i].outcomes[g_config.ROBLOX_GROUP_ID]
                    set == Expected(g_config, held, outcome)
                    issued == SubSeq(cb'[i].calls, Len(cb[i].calls) + 1,
                                     Len(cb'[i].calls))
                IN  IF set = {} THEN issued = <<>> /\ EndsTenant(i, "none")
                    ELSE /\ Len(issued) = 1
                         /\ issued[1].guild = GuildAt(cb[i])
                         /\ Range(issued[1].roles) = set
                         /\ issued[1].reason = "Roblox Verification"
          /\ ~CallsGrant(i) => cb'[i].calls = cb[i].calls]_vars

\* one run issued one call in each of two tenants, the first carrying two
\* roles, and another run ended a tenant without a call
C28_Witness ==
    \E i, j \in CbIds :
        /\ Len(cb[i].calls) = 2
        /\ cb[i].calls[1].guild # cb[i].calls[2].guild
        /\ Len(cb[i].calls[1].roles) = 2
        /\ cb[i].calls[1].reason = "Roblox Verification"
        /\ cb[j].calls = <<>>
        /\ \E k \in 1..Len(cb[j].tenants) : cb[j].tenants[k][2] = "none"

\* C29: a callback goes to the token exchange only with a requester id that is
\* present and not zero, a tenant id that is present and not zero and a code
\* verifier that is present and not empty; a callback whose session yields no
\* tenant id (on the cache backend, a session read without its tenant key)
\* or tenant id 0 makes no token request, writes no linkage and, once
\* answered, is answered 400.
C29_SessionComplete ==
    \A i \in CbIds :
        /\ cb[i].token_req =>
              /\ cb[i].discord_id \notin {None, Some(0)}
              /\ cb[i].guild_id \notin {None, Some(0)}
              /\ cb[i].code_verifier \notin {None, Some("")}
        /\ cb[i].guild_id \in {None, Some(0)} =>
              /\ ~cb[i].token_req /\ ~cb[i].wrote
              /\ cb[i].pc = "done" => cb[i].status = 400

\* on the cache backend a callback read the requester id and the verifier of
\* a session whose tenant key had expired by the time it was read, and was
\* answered 400 without a token request
C29_Witness ==
    \E i \in CbIds :
        /\ has_cache
        /\ cb[i].discord_id = Some(lk[1].author)
        /\ cb[i].code_verifier = Some(lk[1].verifier)
        /\ cb[i].guild_id = None
        /\ ~cb[i].token_req
        /\ Answered(i, 400)

\* C30: a callback that carries no code, whatever state it carries (that of a
\* stored session included), leaves the session store as it is: it is answered
\* 400 at once and none of its steps looks a session up or changes the cache
\* or the maps, so that the session stays stored for a later callback with
\* the same state and a code.
C30_NoCodeKeepsSession ==
    [][\A i \in CbIds :
          cb'[i] # cb[i] /\ cb'[i].code \in {None, Some("")} =>
              /\ cache' = cache /\ pending' = pending /\ verifiers' = verifiers
              /\ cb'[i].pc = "done" /\ cb'[i].status = 400
              /\ ~cb'[i].looked_up]_vars

\* a callback with the state of a stored session and no code was answered 400,
\* and a later callback with the same state and a code wrote the linkage and
\* was answered 302
C30_Witness ==
    \E i, j \in CbIds :
        /\ i < j
        /\ cb[i].valid /\ cb[i].code = None /\ Answered(i, 400)
        /\ cb[j].state = cb[i].state /\ cb[j].code = Some("xyz")
        /\ cb[j].wrote /\ Answered(j, 302)

\* C31: a link request whose lookup finds a linkage of its requester draws no
\* state, creates no session and leaves the cache, the maps and the table as
\* they are, and what it then sends is the message that the requester is
\* verified already, without a URL; a link request draws its state and stores
\* a session only when its lookup found no linkage.
C31_LinkedNoSession ==
    [][\A n \in DOMAIN lk :
          /\ lk[n].pc = "lookup" /\ lk'[n].pc # "lookup" =>
                IF LinkagesOf(db, lk[n].author) # {}
                THEN /\ cache' = cache /\ pending' = pending
                     /\ verifiers' = verifiers /\ db' = db
                     /\ lk'[n].state = "" /\ lk'[n].url = None
                     /\ lk'[n].sent = "none" /\ lk'[n].pc = "send"
                ELSE lk'[n].state = StateTok[n]
          /\ lk[n].pc = "send" /\ lk[n].state = "" /\ lk'[n].pc = "done" =>
                /\ lk'[n].sent = "already" /\ lk'[n].url = None
                /\ lk'[n].state = ""
          /\ lk[n].state = "" /\ lk'[n].state # "" =>
                LinkagesOf(db, lk[n].author) = {}
          /\ lk'[n].state = "" => SessionGone(StateTok[n])']_vars

\* a requester linked through a first link request and its callback; a second
\* link request of the same requester found the linkage and created nothing
C31_Witness ==
    \E i \in CbIds :
        /\ lk[1].sent = "url" /\ lk[2].sent = "already"
        /\ lk[1].author = lk[2].author
        /\ cb[i].wrote /\ cb[i].discord_id = Some(lk[1].author)
        /\ LinkagesOf(db, lk[2].author) # {}
        /\ lk[2].state = "" /\ SessionGone(StateTok[2])

\* C32: the delete of an unlink removes the linkage of its requester and
\* nothing else: every other linkage, the cache, the maps and every member's
\* roles stay as they are; an unlink whose lookup finds no linkage of its
\* requester only sends its message and ends, and no step of an unlink
\* changes anything but the table.
C32_UnlinkFrame ==
    [][\A u \in UnlinkIds :
          ul'[u] # ul[u] =>
              /\ cache' = cache /\ pending' = pending /\ verifiers' = verifiers
              /\ roles' = roles
              /\ IF ul[u].pc = "delete"
                 THEN /\ db' = db \ LinkagesOf(db, ul[u].author)
                      /\ LinkagesOf(db', ul[u].author) = {}
                 ELSE db' = db
              /\ ul[u].pc = "lookup" /\ LinkagesOf(db, ul[u].author) = {} =>
                    ul'[u].pc = "send"
              /\ ul[u].pc = "send" => ul'[u].pc = "idle"
              /\ ul[u].pc = "lookup" /\ LinkagesOf(db, ul[u].author) # {} =>
                    ul'[u].pc = "delete"]_vars

\* two requesters had linked; an unlink has ended, the linkage of one of them
\* is gone and the one of the other is still there
C32_Witness ==
    \E i, j \in CbIds :
        /\ cb[i].wrote /\ cb[j].wrote
        /\ cb[i].discord_id = Some(41) /\ cb[j].discord_id = Some(42)
        /\ LinkagesOf(db, 41) = {} /\ LinkagesOf(db, 42) # {}
        /\ ul[1].pc = "idle"

\* an execution of check_tempbans that set the flag and has not left yet
InBody(s, t) == s.run[t].pc \in {"collect", "fetch_ban", "unban", "mark"}

BodyEnds == {"empty", "completed", "raised"}

\* C33: at most one execution of the tempban check is in its body at any
\* time, and the in-progress flag is set exactly while one is; a tick that
\* finds the flag set ends at once, having processed no case and changed
\* neither the cases, the bans nor the flag; every exit of an execution that
\* set the flag (no expired case, completion, an exception) clears the flag,
\* so that a tick starting when no execution is in its body is not skipped.
C33_SingleRun ==
    [][/\ Cardinality({t \in TempTicks : InBody(tb', t)}) <= 1
       /\ tb'.processing <=> \E t \in TempTicks : InBody(tb', t)
       /\ \A t \in TempTicks :
             /\ tb.run[t].pc = "idle" /\ tb'.run[t].pc # "idle" /\ tb.processing =>
                   /\ tb'.run[t].pc = "done"
                   /\ tb'.run[t].end \in {"skipped", "maintenance"}
                   /\ tb'.run[t].processed = 0 /\ tb'.run[t].todo = <<>>
                   /\ tb'.marked = tb.marked /\ tb'.lifted = tb.lifted
                   /\ tb'.bans = tb.bans
                   /\ tb'.processing
             /\ tb.run[t].pc = "idle" /\ tb'.run[t].pc # "idle" /\ ~tb.processing =>
                   tb'.run[t].end # "skipped"
             /\ tb'.run[t].end = "skipped" /\ tb.run[t].end # "skipped" =>
                   \E u \in TempTicks : u # t /\ InBody(tb, u)
             /\ InBody(tb, t) /\ ~InBody(tb', t) =>
                   /\ tb'.run[t].pc = "done"
                   /\ tb'.run[t].end \in BodyEnds
                   /\ ~tb'.processing]_vars

\* An execution was left by an exception while another tick was skipped, and
\* a later tick went through its cases to the end.
C33_Witness ==
    /\ tb.run[1].end = "raised"
    /\ tb.run[2].end = "skipped"
    /\ tb.run[3].end = "completed"
    /\ ~tb.processing

\* C34: an expired case with valid data is marked expired exactly when the
\* check unbanned its user in at least one guild or the case is global
\* (guild_id 0): once no execution is at work on the case, a case whose user
\* the check has unbanned somewhere is marked, and a marked case is a valid
\* one that is global or whose user the check has unbanned.
C34_MarkedIffUnbanned ==
    \A id \in DOMAIN CasePool :
        LET case == CasePool[id]
            at_hand == \E t \in TempTicks :
                           /\ InBody(tb, t)
                           /\ tb.run[t].todo # <<>>
                           /\ Head(tb.run[t].todo) = id
            unbanned == {guild \in BotGuilds : <<id, guild>> \in tb.lifted}
        IN  /\ id \in tb.marked =>
                  /\ ~InvalidCase(case)
                  /\ unbanned # {} \/ case.guild_id = 0
            /\ ~at_hand /\ unbanned # {} => id \in tb.marked

====
